---- MODULE Spec2Model ----
(***************************************************************************)
(* Release-management backend of publisher-cli: the relational store       *)
(* (versions, builds), the blob store (artifacts, manifests) and the CLI   *)
(* handlers that read and write them.                                      *)
(*                                                                         *)
(* Encoding.  A version name is a string; Parse gives its semantic-version *)
(* components <<major, minor, patch, pre>> (pre = 0: no pre-release part,  *)
(* pre = k > 0: "-beta.k") and <<>> for a string semver rejects.  Times    *)
(* are integers; 0 (NoTime) is an unset timestamp.  A date string is an    *)
(* integer too: t in 1 .. TypedForm - 1 is the text a timestamptz column   *)
(* returns for the instant t, Typed(t) is another text of the same instant *)
(* (the date as an operator types it), and Instant gives the instant of    *)
(* either.  "" (NoName) is an unset string.                                *)
(* A device id is the sequence of its character codes;                     *)
(* <<>> is the absent (or empty) id.  A version id is the triple           *)
(* <<version_name, release_channel, created_at>>: the name and channel are *)
(* the store's unique key, the creation time stands for the uuid that a    *)
(* row created again gets anew.  A storage path                            *)
(* {prefix}/{os}/{arch}/{file} is <<channel, name, os, arch, file>>.       *)
(* A url is the sequence of its parts between the slashes ("https:", the   *)
(* empty part between the two slashes, the host, ...); archiveMatch is the *)
(* match of /\/archive\/(.+)$/ on it.                                      *)
(*                                                                         *)
(* Processes.  A handler is a sequence of round trips to the store; each  *)
(* round trip is one step, and calls[p] holds the command process p is in *)
(* (its arguments, what it has read, the round trip it makes next).  The  *)
(* systems that run commands one at a time start a command only when none *)
(* is running; the race and the concurrent system let the round trips of  *)
(* two processes interleave.                                               *)
(***************************************************************************)
EXTENDS Integers, Sequences, FiniteSets, TLC

\* ---------------------------------------------------------------- bounds
\* the clock value at which the store takes no more rows: a behaviour that
\* starts at clock 0 inserts MaxClock rows (versions and builds)
MaxClock == 4
\* longest candidate list handed to the source selector
MaxSources == 3
\* latest creation timestamp of a candidate handed to the source selector
MaxStamp == 2
\* longest device identifier handed to the rollout bucket test
MaxIdLen == 3

NoTime == 0

\* a timestamp string that is empty after trimming
BlankTime == -1

\* the date strings from TypedForm on are texts PostgreSQL does not return
TypedForm == 100

\* the text of instant t as an operator types it ("2025-01-01" for the
\* instant a timestamptz column returns as "2025-01-01T00:00:00+00:00")
Typed(t) == TypedForm + t

\* new Date(value).getTime() of a date string
Instant(value) == value % TypedForm

\* what a timestamptz column returns after the text was written to it
timestamptz(value) == IF value = NoTime THEN NoTime ELSE Instant(value)

NoName == ""

NoNumber == -1

\* ------------------------------------------------------- enumerations
SUPPORTED_OS == {"macos", "windows", "linux", "ios", "android"}

SUPPORTED_ARCH == {"arm64", "x64", "x86"}

SUPPORTED_BUILD_TYPES == {"patch", "installer"}

SUPPORTED_CHANNELS == {"stable", "beta", "alpha"}

SUPPORTED_DISTRIBUTIONS == {"direct", "store"}

DEFAULT_VARIANT == "default"

isSupportedOs(value) == value \in SUPPORTED_OS

isSupportedArch(value) == value \in SUPPORTED_ARCH

isSupportedBuildType(value) == value \in SUPPORTED_BUILD_TYPES

isSupportedDistribution(value) == value \in SUPPORTED_DISTRIBUTIONS

isSupportedChannel(value) == value \in SUPPORTED_CHANNELS

\* type is optional: "" is the omitted argument
assertValidPlatform(os, arch, type) ==
  /\ isSupportedOs(os)
  /\ isSupportedArch(arch)
  /\ (type # NoName => isSupportedBuildType(type))

\* the variant labels of the model; "bad label" is a malformed one
isValidVariant(variant) == variant \in {"default", "gl", "d3d11"}

\* ------------------------------------------------------------- semver
Parse(s) ==
  CASE s = "0.9.0" -> <<0, 9, 0, 0>>
    [] s = "1.0.0" -> <<1, 0, 0, 0>>
    [] s = "1.1.0" -> <<1, 1, 0, 0>>
    [] s = "1.2.0" -> <<1, 2, 0, 0>>
    [] s = "1.3.0" -> <<1, 3, 0, 0>>
    [] s = "1.3.0-beta.1" -> <<1, 3, 0, 1>>
    [] s = "1.3.0-beta.2" -> <<1, 3, 0, 2>>
    [] s = "2.0.0-beta.1" -> <<2, 0, 0, 1>>
    [] OTHER -> <<>>

semverValid(s) == Parse(s) # <<>>

semverPrerelease(s) == semverValid(s) /\ Parse(s)[4] # 0

\* semver.compare on valid versions: -1, 0 or 1
semverCompare(a, b) ==
  LET x == Parse(a)
      y == Parse(b)
  IN  IF x[1] # y[1] THEN (IF x[1] < y[1] THEN -1 ELSE 1)
      ELSE IF x[2] # y[2] THEN (IF x[2] < y[2] THEN -1 ELSE 1)
      ELSE IF x[3] # y[3] THEN (IF x[3] < y[3] THEN -1 ELSE 1)
      ELSE IF x[4] = y[4] THEN 0
      ELSE IF x[4] = 0 THEN 1
      ELSE IF y[4] = 0 THEN -1
      ELSE IF x[4] < y[4] THEN -1 ELSE 1

semverGt(a, b) == semverCompare(a, b) = 1

semverLt(a, b) == semverCompare(a, b) = -1

isVersionGreater(candidate, current) ==
  IF ~semverValid(candidate) \/ ~semverValid(current)
  THEN FALSE
  ELSE semverGt(candidate, current)

\* Array.prototype.sort with comparator Cmp: a stable sort
StableSort(seq, Cmp(_, _)) ==
  LET n == Len(seq)
      pos(i) == 1 + Cardinality({j \in 1..n :
                      \/ Cmp(seq[j], seq[i]) < 0
                      \/ (Cmp(seq[j], seq[i]) = 0 /\ j < i)})
  IN  [k \in 1..n |-> seq[CHOOSE i \in 1..n : pos(i) = k]]

\* the comparator of sortVersionsDesc (pickVersion = version_name)
versionsDescCompare(a, b) ==
  LET validA == semverValid(a.version_name)
      validB == semverValid(b.version_name)
  IN  IF validA /\ validB THEN semverCompare(b.version_name, a.version_name)
      ELSE IF validA THEN -1
      ELSE IF validB THEN 1
      ELSE 0

\* a variant that keeps the order of the query result
sortVersionsDescUnsorted(items) == items

sortVersionsDesc(items) == StableSort(items, versionsDescCompare)

\* .order('created_at', { ascending: false }) over a set of rows
RECURSIVE OrderByCreatedAtDesc(_)
OrderByCreatedAtDesc(rows) ==
  IF rows = {} THEN <<>>
  ELSE LET r == CHOOSE x \in rows : \A y \in rows : y.created_at <= x.created_at
       IN  <<r>> \o OrderByCreatedAtDesc(rows \ {r})

\* ------------------------------------------------------------- policy
clamp(value, min, max) ==
  IF value < min THEN min ELSE IF value > max THEN max ELSE value

DefaultPolicy ==
  [channel |-> "stable", minSupportedVersion |-> NoName, rolloutPercentage |-> 100,
   rolloutStartAt |-> NoTime, rolloutEndAt |-> NoTime]

\* the document {}: no updatePolicy key at all
EmptyMetadata ==
  [updatePolicy |->
     [channel |-> NoName, minSupportedVersion |-> NoName, rolloutPercentage |-> NoNumber,
      rolloutStartAt |-> NoTime, rolloutEndAt |-> NoTime]]

\* A stored metadata document is a record of its keys; a value that is not
\* an object (null, a string, a number) is the record [scalar |-> value].  A
\* field of the policy sub-document holds NoName / NoTime / NoNumber when the
\* document has no usable value for it.
isJsonObject(value) == "scalar" \notin DOMAIN value

AbsentPolicy ==
  [channel |-> NoName, minSupportedVersion |-> NoName, rolloutPercentage |-> NoNumber,
   rolloutStartAt |-> NoTime, rolloutEndAt |-> NoTime]

\* a variant that takes the document's minimum version as it is
parsedUpdatePolicyUnvalidated(raw) ==
  [channel |-> IF isSupportedChannel(raw.channel) THEN raw.channel ELSE "stable",
   minSupportedVersion |-> raw.minSupportedVersion,
   rolloutPercentage |->
      IF raw.rolloutPercentage # NoNumber THEN clamp(raw.rolloutPercentage, 0, 100) ELSE 100,
   rolloutStartAt |-> raw.rolloutStartAt,
   rolloutEndAt |-> raw.rolloutEndAt]

\* the policy fields parseVersionMetadata reads out of the sub-document
parsedUpdatePolicy(raw) ==
  [channel |-> IF isSupportedChannel(raw.channel) THEN raw.channel ELSE "stable",
   minSupportedVersion |->
      IF raw.minSupportedVersion # NoName /\ semverValid(raw.minSupportedVersion)
      THEN raw.minSupportedVersion ELSE NoName,
   rolloutPercentage |->
      IF raw.rolloutPercentage # NoNumber THEN clamp(raw.rolloutPercentage, 0, 100) ELSE 100,
   rolloutStartAt |-> raw.rolloutStartAt,
   rolloutEndAt |-> raw.rolloutEndAt]

rawUpdatePolicyOf(metadata) ==
  IF /\ isJsonObject(metadata)
     /\ "updatePolicy" \in DOMAIN metadata
     /\ isJsonObject(metadata.updatePolicy)
  THEN metadata.updatePolicy ELSE AbsentPolicy

\* a variant that returns the policy sub-document alone
parseVersionMetadataPolicyOnly(metadata) ==
  [updatePolicy |-> parsedUpdatePolicy(rawUpdatePolicyOf(metadata))]

\* { ...raw, updatePolicy }: the keys of the document with the parsed policy
parseVersionMetadata(metadata) ==
  LET keys == IF isJsonObject(metadata) THEN DOMAIN metadata ELSE {}
      updatePolicy == parsedUpdatePolicy(rawUpdatePolicyOf(metadata))
  IN  [k \in keys \cup {"updatePolicy"} |->
         IF k = "updatePolicy" THEN updatePolicy ELSE metadata[k]]

\* a blank string is no date; any other string is returned as it is
normalizeDateLike(value) == IF value = BlankTime THEN NoTime ELSE value

\* a variant that lets the metadata document win over the columns
getUpdatePolicyFromVersionMetadataFirst(source) ==
  LET metadataPolicy == parseVersionMetadata(source.metadata).updatePolicy
      raw == source.metadata.updatePolicy
  IN  [channel |-> IF isSupportedChannel(raw.channel) THEN raw.channel
                   ELSE IF isSupportedChannel(source.release_channel)
                        THEN source.release_channel ELSE "stable",
       minSupportedVersion |->
          IF source.min_supported_version # NoName /\ semverValid(source.min_supported_version)
          THEN source.min_supported_version ELSE metadataPolicy.minSupportedVersion,
       rolloutPercentage |->
          IF source.rollout_percentage # NoNumber
          THEN clamp(source.rollout_percentage, 0, 100) ELSE metadataPolicy.rolloutPercentage,
       rolloutStartAt |->
          IF normalizeDateLike(source.rollout_start_at) # NoTime
          THEN normalizeDateLike(source.rollout_start_at) ELSE metadataPolicy.rolloutStartAt,
       rolloutEndAt |->
          IF normalizeDateLike(source.rollout_end_at) # NoTime
          THEN normalizeDateLike(source.rollout_end_at) ELSE metadataPolicy.rolloutEndAt]

getUpdatePolicyFromVersion(source) ==
  LET metadataPolicy == parseVersionMetadata(source.metadata).updatePolicy
  IN  [channel |-> IF isSupportedChannel(source.release_channel)
                   THEN source.release_channel ELSE metadataPolicy.channel,
       minSupportedVersion |->
          IF source.min_supported_version # NoName /\ semverValid(source.min_supported_version)
          THEN source.min_supported_version ELSE metadataPolicy.minSupportedVersion,
       rolloutPercentage |->
          IF source.rollout_percentage # NoNumber
          THEN clamp(source.rollout_percentage, 0, 100) ELSE metadataPolicy.rolloutPercentage,
       rolloutStartAt |->
          IF normalizeDateLike(source.rollout_start_at) # NoTime
          THEN normalizeDateLike(source.rollout_start_at) ELSE metadataPolicy.rolloutStartAt,
       rolloutEndAt |->
          IF normalizeDateLike(source.rollout_end_at) # NoTime
          THEN normalizeDateLike(source.rollout_end_at) ELSE metadataPolicy.rolloutEndAt]

\* a variant that keeps the policy of the existing document
buildVersionMetadataWithPolicyKeepOld(existingMetadata, policy) ==
  parseVersionMetadata(existingMetadata)

buildVersionMetadataWithPolicy(existingMetadata, policy) ==
  [parseVersionMetadata(existingMetadata) EXCEPT !.updatePolicy = policy]

\* a blank string parses to an invalid date, which bounds nothing
isWithinRolloutWindow(policy, at) ==
  IF /\ policy.rolloutStartAt # NoTime /\ policy.rolloutStartAt # BlankTime
     /\ at < Instant(policy.rolloutStartAt) THEN FALSE
  ELSE IF /\ policy.rolloutEndAt # NoTime /\ policy.rolloutEndAt # BlankTime
          /\ at > Instant(policy.rolloutEndAt) THEN FALSE
  ELSE TRUE

RECURSIVE deviceHash(_, _)
deviceHash(acc, chars) ==
  IF chars = <<>> THEN acc
  ELSE deviceHash(((acc * 31) + Head(chars)) % 1000, Tail(chars))

\* a variant that admits the devices whose bucket is not below the percentage
isDeviceInRolloutBucketAbove(deviceId, rolloutPercentage) ==
  IF rolloutPercentage >= 100 THEN TRUE
  ELSE IF rolloutPercentage <= 0 \/ deviceId = <<>> THEN FALSE
  ELSE (deviceHash(0, deviceId) % 100) >= rolloutPercentage

\* a variant that also admits the bucket equal to the percentage
isDeviceInRolloutBucketInclusive(deviceId, rolloutPercentage) ==
  IF rolloutPercentage >= 100 THEN TRUE
  ELSE IF rolloutPercentage <= 0 \/ deviceId = <<>> THEN FALSE
  ELSE (deviceHash(0, deviceId) % 100) <= rolloutPercentage

isDeviceInRolloutBucket(deviceId, rolloutPercentage) ==
  IF rolloutPercentage >= 100 THEN TRUE
  ELSE IF rolloutPercentage <= 0 \/ deviceId = <<>> THEN FALSE
  ELSE (deviceHash(0, deviceId) % 100) < rolloutPercentage

\* value is the number the option string denotes; NoNumber is the omitted
\* option, and the result NoNumber is null
\* a variant that accepts any number
parseRolloutPercentageUnchecked(value) == value

parseRolloutPercentage(value) ==
  IF value = NoNumber THEN NoNumber
  ELSE IF value < 0 \/ value > 100 THEN NoNumber
  ELSE value

\* ------------------------------------------------------ source selector
\* distribution "" is a row without the column (records older than the
\* distribution migration)
resolveDistribution(build) ==
  IF build.distribution = "store" \/ build.distribution = "direct"
  THEN build.distribution
  ELSE IF build.platformMetadata.external THEN "store" ELSE "direct"

\* a variant that ranks direct before store
rankDistributionDirectFirst(distribution) == IF distribution = "store" THEN 1 ELSE 0

rankDistribution(distribution) == IF distribution = "store" THEN 0 ELSE 1

mapBuildRowToPlatformPayload(build) ==
  [os |-> build.os, arch |-> build.arch, type |-> build.type,
   distribution |-> build.distribution, packageName |-> build.package_name,
   url |-> build.url, size |-> build.size,
   platformMetadata |-> build.platform_metadata, createdAt |-> build.created_at,
   sha256Checksum |-> build.sha256_checksum, sha512Checksum |-> build.sha512_checksum,
   sourceVersion |-> NoName]

MapSeq(seq, F(_)) == [i \in 1..Len(seq) |-> F(seq[i])]

\* the elements of seq that are the first with their key, in order
FirstByKey(seq, Key(_)) ==
  LET idx == {i \in 1..Len(seq) : \A j \in 1..(i - 1) : Key(seq[j]) # Key(seq[i])}
  IN  [k \in 1..Cardinality(idx) |->
         seq[CHOOSE i \in idx : Cardinality({j \in idx : j < i}) = k - 1]]

\* one entry of typeEntry.sources
platformSource(build) ==
  [url |-> build.url, size |-> build.size, packageName |-> build.packageName,
   releaseDate |-> build.createdAt, type |-> build.type,
   distribution |-> resolveDistribution(build), version |-> build.sourceVersion,
   sha256 |-> build.sha256Checksum, sha512 |-> build.sha512Checksum,
   fallbackFrom |-> build.platformMetadata.fallback_from,
   external |-> build.platformMetadata.external]

\* the comparator that orders the sources of one (os, arch, type) group
sourceCompare(a, b) ==
  LET byDistribution == rankDistribution(a.distribution) - rankDistribution(b.distribution)
  IN  IF byDistribution # 0 THEN byDistribution
      ELSE b.releaseDate - a.releaseDate

\* a variant that attaches the list of candidates to every entry
buildPlatformsArrayAlwaysSources(builds) ==
  LET osOf(b) == b.os
      firsts == FirstByKey(builds, osOf)
      group(os, arch, type) ==
        LET In(b) == b.os = os /\ b.arch = arch /\ b.type = type
        IN  MapSeq(SelectSeq(builds, In), platformSource)
      entry(os, arch, type) ==
        LET sortedSources == StableSort(group(os, arch, type), sourceCompare)
        IN  [primary |-> sortedSources[1], sources |-> sortedSources]
      keys(os) == {<<builds[i].arch, builds[i].type>> :
                     i \in {j \in 1..Len(builds) : builds[j].os = os}}
  IN  [k \in 1..Len(firsts) |->
         [os |-> firsts[k].os,
          builds |-> [key \in keys(firsts[k].os) |-> entry(firsts[k].os, key[1], key[2])]]]

\* a variant whose sources list leaves the primary out
buildPlatformsArrayRemainder(builds) ==
  LET osOf(b) == b.os
      firsts == FirstByKey(builds, osOf)
      group(os, arch, type) ==
        LET In(b) == b.os = os /\ b.arch = arch /\ b.type = type
        IN  MapSeq(SelectSeq(builds, In), platformSource)
      entry(os, arch, type) ==
        LET sortedSources == StableSort(group(os, arch, type), sourceCompare)
        IN  [primary |-> sortedSources[1],
             sources |-> IF Len(sortedSources) > 1 THEN Tail(sortedSources) ELSE <<>>]
      keys(os) == {<<builds[i].arch, builds[i].type>> :
                     i \in {j \in 1..Len(builds) : builds[j].os = os}}
  IN  [k \in 1..Len(firsts) |->
         [os |-> firsts[k].os,
          builds |-> [key \in keys(firsts[k].os) |-> entry(firsts[k].os, key[1], key[2])]]]

\* platforms: one element per os in order of first appearance; builds maps
\* <<arch, type>> to the primary source and, when the group has more than
\* one candidate, the sorted list of all its candidates
buildPlatformsArray(builds) ==
  LET osOf(b) == b.os
      firsts == FirstByKey(builds, osOf)
      group(os, arch, type) ==
        LET In(b) == b.os = os /\ b.arch = arch /\ b.type = type
        IN  MapSeq(SelectSeq(builds, In), platformSource)
      entry(os, arch, type) ==
        LET sortedSources == StableSort(group(os, arch, type), sourceCompare)
        IN  [primary |-> sortedSources[1],
             sources |-> IF Len(sortedSources) > 1 THEN sortedSources ELSE <<>>]
      keys(os) == {<<builds[i].arch, builds[i].type>> :
                     i \in {j \in 1..Len(builds) : builds[j].os = os}}
  IN  [k \in 1..Len(firsts) |->
         [os |-> firsts[k].os,
          builds |-> [key \in keys(firsts[k].os) |-> entry(firsts[k].os, key[1], key[2])]]]

\* ------------------------------------------------------ manifest builder
NoManifest == [exists |-> FALSE]

ManifestDoc(row, policy, platforms) ==
  [exists |-> TRUE, name |-> "App", version |-> row.version_name,
   channel |-> row.release_channel, releaseDate |-> row.created_at,
   isMandatory |-> row.is_mandatory, updatePolicy |-> policy, platforms |-> platforms]

VersionRows(vs, version, channel) ==
  {v \in vs : v.version_name = version /\ v.release_channel = channel}

\* the id column of a version row: a row created again under the same name
\* gets another id
VersionId(v) == <<v.version_name, v.release_channel, v.created_at>>

\* the manifest buildVersionManifest makes of the version row and the build
\* rows it has read
versionManifestOf(versionData, rows) ==
  ManifestDoc(versionData, getUpdatePolicyFromVersion(versionData),
              buildPlatformsArray(MapSeq(OrderByCreatedAtDesc(rows),
                                         mapBuildRowToPlatformPayload)))

\* the manifest of buildVersionManifest for an existing version row
buildVersionManifest(vs, bs, version, channel) ==
  LET versionData == CHOOSE v \in VersionRows(vs, version, channel) : TRUE
  IN  versionManifestOf(versionData, {b \in bs : b.version_id = VersionId(versionData)})

PublishedIn(vs, channel) ==
  {v \in vs : v.is_published /\ v.release_channel = channel}

RECURSIVE FlattenPlatforms(_)
FlattenPlatforms(orderedVersions) ==
  IF orderedVersions = <<>> THEN <<>>
  ELSE LET version == Head(orderedVersions)
           tag(build) == [build EXCEPT !.sourceVersion = version.version_name,
                                       !.distribution = resolveDistribution(build)]
       IN  MapSeq(version.platforms, tag) \o FlattenPlatforms(Tail(orderedVersions))

comboKey(build) == <<build.os, build.arch, build.type, build.distribution>>

\* versions of the channel with their builds attached, in semver order
versionsWithPlatforms(vrows, bs) ==
  LET attach(version) ==
        [row |-> version, version_name |-> version.version_name,
         platforms |-> MapSeq(OrderByCreatedAtDesc({b \in bs : b.version_id = VersionId(version)}),
                              mapBuildRowToPlatformPayload)]
  IN  MapSeq(OrderByCreatedAtDesc(vrows), attach)

orderedVersionsOf(vs, bs, channel) ==
  sortVersionsDesc(versionsWithPlatforms(PublishedIn(vs, channel), bs))

\* the builds generateLatestManifest selects, in selection order
selectedBuildBySource(vs, bs, channel) ==
  FirstByKey(FlattenPlatforms(orderedVersionsOf(vs, bs, channel)), comboKey)

\* the manifest generateLatestManifest makes of the published version rows
\* and the build rows it has read; vrows must be non-empty
latestManifestOf(vrows, bs) ==
  LET orderedVersions == sortVersionsDesc(versionsWithPlatforms(vrows, bs))
      latestVersion == orderedVersions[1].row
  IN  ManifestDoc(latestVersion, getUpdatePolicyFromVersion(latestVersion),
                  buildPlatformsArray(FirstByKey(FlattenPlatforms(orderedVersions), comboKey)))

\* the manifest generateLatestManifest uploads; PublishedIn must be non-empty
latestManifest(vs, bs, channel) == latestManifestOf(PublishedIn(vs, channel), bs)

\* ---------------------------------------------------------------- state
\* calls: the commands that are running, one per process, each with the
\* round trip it makes next and what it has read so far
VARIABLES versions, builds, blobs, manifests, clock, lastOp, calls

vars == <<versions, builds, blobs, manifests, clock, lastOp, calls>>

store == <<versions, builds, blobs, manifests>>

\* what the last handler was called with and what it reported; a call that
\* ends with "invalid" or "notfound" reports only that
NoOp ==
  [op |-> "none", version |-> NoName, channel |-> NoName, os |-> NoName,
   arch |-> NoName, type |-> NoName, distribution |-> NoName, variant |-> NoName,
   force |-> FALSE, confirm |-> FALSE, outcome |-> NoName,
   conflicts |-> {}, offered |-> {}, assigned |-> {}, deleted |-> {},
   installed |-> NoName, deviceId |-> <<>>, allowPrerelease |-> FALSE,
   now |-> NoTime, target |-> NoName, input |-> <<>>, platforms |-> <<>>,
   mandatory |-> FALSE, result |-> <<>>]

Rejected(op, outcome) == [NoOp EXCEPT !.op = op, !.outcome = outcome]

NoStore == [versions |-> {}, builds |-> {}, blobs |-> {}, manifests |-> {}, clock |-> 0]

\* what a running call has read
NoRead ==
  [versionData |-> {}, rows |-> {}, pending |-> <<>>, conflicts |-> {},
   folders |-> <<>>, files |-> {}, cleanup |-> TRUE,
   missing |-> <<>>, channelVersions |-> {}, choice |-> {}, offered |-> {},
   assigned |-> {}, manifestVersion |-> {}, manifestRows |-> {},
   latestVersions |-> {}, latestRows |-> {}, threw |-> NoName]

\* a call of a handler before its first round trip; pc names the round trip
\* it makes next, "done" is a call that has returned or exited
NewCall(op, pc, args) ==
  [op |-> op, pc |-> pc, args |-> args, read |-> NoRead, report |-> NoOp,
   before |-> NoStore]

NoCall == NewCall("none", "done", [fails |-> {}])

Procs == {1, 2, 3}

Init ==
  /\ versions = {}
  /\ builds = {}
  /\ blobs = {}
  /\ manifests = {}
  /\ clock = 0
  /\ lastOp = NoOp
  /\ calls = [p \in Procs |-> NoCall]

\* the store as the value a round trip works on
Store ==
  [versions |-> versions, builds |-> builds, blobs |-> blobs,
   manifests |-> manifests, clock |-> clock]

\* the results of a round trip: the call goes on, the call ends, or the
\* insert would pass the bound on the rows of a behaviour
Goto(S, c, pc) == [S |-> S, c |-> [c EXCEPT !.pc = pc]]

Finish(S, c, report) == [S |-> S, c |-> [c EXCEPT !.pc = "done", !.report = report]]

Blocked(S, c) == [S |-> S, c |-> [c EXCEPT !.pc = "blocked"]]

\* the external call made at the site returns an error (or throws)
Fails(c, site) == site \in c.args.fails

ChannelOf(option) == IF option # NoName THEN option ELSE "stable"

\* a variant that files every version under the default channel
storageKeyPrefixStable(channel, version) == <<"stable", version>>

storageKeyPrefix(channel, version) == <<channel, version>>

VersionManifestPath(prefix) == <<"releases", prefix[1], prefix[2]>>

ChannelManifestPath(channel) == <<"channels", channel, NoName>>

\* storage upload with upsert: true
PutManifest(ms, path, doc) ==
  {m \in ms : m.path # path} \cup {[path |-> path, doc |-> doc]}

PutBlob(bs, path, content) ==
  {b \in bs : b.path # path} \cup {[path |-> path, content |-> content]}

StoredManifest(ms, path) ==
  IF \E m \in ms : m.path = path
  THEN (CHOOSE m \in ms : m.path = path).doc
  ELSE NoManifest

\* the round trips of generateManifest (manifestLookup, manifestBuilds,
\* manifestUpload) and of generateLatestManifest (latestVersions,
\* latestBuilds, latestUpload); "threw" is the exception a caller catches
ManifestSteps ==
  {"manifestLookup", "manifestBuilds", "manifestUpload",
   "latestVersions", "latestBuilds", "latestUpload"}

Threw(S, c) == [S |-> S, c |-> [c EXCEPT !.pc = "threw", !.read.threw = c.pc]]

manifestStep(S, c, version, channel) ==
  LET row == CHOOSE v \in c.read.manifestVersion : TRUE
  IN  CASE c.pc = "manifestLookup" ->
             LET found == VersionRows(S.versions, version, channel)
             IN  IF Fails(c, "manifestLookup") \/ found = {} THEN Threw(S, c)
                 ELSE [S |-> S, c |-> [c EXCEPT !.pc = "manifestBuilds",
                                                !.read.manifestVersion = found]]
        [] c.pc = "manifestBuilds" ->
             IF Fails(c, "manifestBuilds") THEN Threw(S, c)
             ELSE [S |-> S,
                   c |-> [c EXCEPT !.pc = "manifestUpload",
                                   !.read.manifestRows =
                                      {b \in S.builds : b.version_id = VersionId(row)}]]
        [] c.pc = "manifestUpload" ->
             IF Fails(c, "manifestUpload") THEN Threw(S, c)
             ELSE Goto([S EXCEPT !.manifests =
                                    PutManifest(@, VersionManifestPath(row.storage_key_prefix),
                                                versionManifestOf(row, c.read.manifestRows))],
                       c, "manifestDone")
        [] c.pc = "latestVersions" ->
             LET rows == PublishedIn(S.versions, channel)
             IN  IF Fails(c, "latestVersions") \/ rows = {} THEN Threw(S, c)
                 ELSE [S |-> S, c |-> [c EXCEPT !.pc = "latestBuilds",
                                                !.read.latestVersions = rows]]
        [] c.pc = "latestBuilds" ->
             IF Fails(c, "latestBuilds") THEN Threw(S, c)
             ELSE [S |-> S,
                   c |-> [c EXCEPT !.pc = "latestUpload",
                                   !.read.latestRows =
                                      {b \in S.builds :
                                         \E v \in c.read.latestVersions :
                                            b.version_id = VersionId(v)}]]
        [] c.pc = "latestUpload" ->
             IF Fails(c, "latestUpload") THEN Threw(S, c)
             ELSE Goto([S EXCEPT !.manifests =
                                    PutManifest(@, ChannelManifestPath(channel),
                                                latestManifestOf(c.read.latestVersions,
                                                                 c.read.latestRows))],
                       c, "latestDone")

\* ------------------------------------------------------------ versions
createVersionCall(version, o, fails) ==
  NewCall("createVersion", "insert", [version |-> version, o |-> o, fails |-> fails])

\* createVersion: the validations, then one insert
createVersionStep(S, c) ==
  LET version == c.args.version
      o == c.args.o
      rolloutPercentage == parseRolloutPercentage(o.rollout)
      invalid ==
        \/ ~semverValid(version)
        \/ (o.channel # NoName /\ ~isSupportedChannel(o.channel))
        \/ (o.minSupported # NoName /\ ~semverValid(o.minSupported))
        \/ (o.rollout # NoNumber /\ rolloutPercentage = NoNumber)
      releaseChannel == ChannelOf(o.channel)
      pct == IF rolloutPercentage # NoNumber THEN rolloutPercentage ELSE 100
      updatePolicy ==
        [channel |-> releaseChannel, minSupportedVersion |-> o.minSupported,
         rolloutPercentage |-> pct,
         rolloutStartAt |-> o.rolloutStartAt, rolloutEndAt |-> o.rolloutEndAt]
      row ==
        [version_name |-> version, release_channel |-> releaseChannel,
         min_supported_version |-> o.minSupported, rollout_percentage |-> pct,
         rollout_start_at |-> timestamptz(o.rolloutStartAt),
         rollout_end_at |-> timestamptz(o.rolloutEndAt),
         storage_key_prefix |-> storageKeyPrefix(releaseChannel, version),
         is_mandatory |-> o.mandatory, is_published |-> FALSE,
         metadata |-> buildVersionMetadataWithPolicy(EmptyMetadata, updatePolicy),
         created_at |-> S.clock + 1]
      \* versions_version_channel_unique, a text that is no timestamp,
      \* versions_rollout_window_check
      rejected ==
        \/ VersionRows(S.versions, version, releaseChannel) # {}
        \/ BlankTime \in {o.rolloutStartAt, o.rolloutEndAt}
        \/ (row.rollout_start_at # NoTime /\ row.rollout_end_at # NoTime
              /\ row.rollout_end_at < row.rollout_start_at)
      call == [NoOp EXCEPT !.op = "createVersion", !.version = version, !.channel = o.channel]
  IN  IF S.clock >= MaxClock THEN Blocked(S, c)
      ELSE IF invalid THEN Finish(S, c, Rejected("createVersion", "invalid"))
      ELSE IF rejected \/ Fails(c, "insert")
      THEN Finish(S, c, Rejected("createVersion", "failed"))
      ELSE Finish([S EXCEPT !.versions = @ \cup {row}, !.clock = @ + 1], c,
                  [call EXCEPT !.outcome = "created"])

setVersionPolicyCall(version, o, fails) ==
  NewCall("setVersionPolicy", "select", [version |-> version, o |-> o, fails |-> fails])

\* setVersionPolicy: the validations and the select of the row, then the
\* update of the row that has the name and the channel by then; the new
\* policy and metadata are made of what the select returned.  A key of the
\* update whose value is undefined is not sent, so its column keeps what the
\* row holds by then, while the metadata document is replaced as a whole.
setVersionPolicyStep(S, c) ==
  LET version == c.args.version
      o == c.args.o
      rolloutPercentage == parseRolloutPercentage(o.rollout)
      invalid ==
        \/ ~semverValid(version)
        \/ (o.channel # NoName /\ ~isSupportedChannel(o.channel))
        \/ (o.minSupported # NoName /\ ~semverValid(o.minSupported))
        \/ (o.rollout # NoNumber /\ rolloutPercentage = NoNumber)
      selectedChannel == ChannelOf(o.channel)
      found == VersionRows(S.versions, version, selectedChannel)
      existing == CHOOSE v \in c.read.versionData : TRUE
      currentPolicy == getUpdatePolicyFromVersion(existing)
      nextPolicy ==
        [channel |-> selectedChannel,
         minSupportedVersion |-> IF o.minSupported # NoName THEN o.minSupported
                                 ELSE currentPolicy.minSupportedVersion,
         rolloutPercentage |-> IF rolloutPercentage # NoNumber THEN rolloutPercentage
                               ELSE currentPolicy.rolloutPercentage,
         rolloutStartAt |-> IF o.rolloutStartAt # NoTime THEN o.rolloutStartAt
                            ELSE currentPolicy.rolloutStartAt,
         rolloutEndAt |-> IF o.rolloutEndAt # NoTime THEN o.rolloutEndAt
                          ELSE currentPolicy.rolloutEndAt]
      updated(target) ==
        [target EXCEPT
           !.release_channel = nextPolicy.channel,
           !.min_supported_version =
              IF nextPolicy.minSupportedVersion # NoName
              THEN nextPolicy.minSupportedVersion ELSE @,
           !.rollout_percentage = nextPolicy.rolloutPercentage,
           !.rollout_start_at =
              IF nextPolicy.rolloutStartAt # NoTime
              THEN timestamptz(nextPolicy.rolloutStartAt) ELSE @,
           !.rollout_end_at =
              IF nextPolicy.rolloutEndAt # NoTime
              THEN timestamptz(nextPolicy.rolloutEndAt) ELSE @,
           !.storage_key_prefix = storageKeyPrefix(nextPolicy.channel, version),
           !.metadata = buildVersionMetadataWithPolicy(existing.metadata, nextPolicy)]
      \* a text that is no timestamp, and versions_rollout_window_check on
      \* the rows as the update leaves them
      rejected ==
        \/ /\ found # {}
           /\ BlankTime \in {nextPolicy.rolloutStartAt, nextPolicy.rolloutEndAt}
        \/ \E v \in found :
              /\ updated(v).rollout_start_at # NoTime /\ updated(v).rollout_end_at # NoTime
              /\ updated(v).rollout_end_at < updated(v).rollout_start_at
      call == [NoOp EXCEPT !.op = "setVersionPolicy", !.version = version, !.channel = o.channel]
  IN  CASE c.pc = "select" ->
             IF invalid THEN Finish(S, c, Rejected("setVersionPolicy", "invalid"))
             ELSE IF Fails(c, "select") \/ found = {}
             THEN Finish(S, c, Rejected("setVersionPolicy", "notfound"))
             ELSE [S |-> S, c |-> [c EXCEPT !.pc = "update", !.read.versionData = found]]
        [] c.pc = "update" ->
             IF rejected \/ Fails(c, "update")
             THEN Finish(S, c, Rejected("setVersionPolicy", "failed"))
             ELSE Finish([S EXCEPT !.versions = (@ \ found) \cup {updated(v) : v \in found}],
                         c, [call EXCEPT !.outcome = "updated"])

\* -------------------------------------------------------------- builds
\* the result of the filename pattern spacerun-{version}-{arch}-{os}.{ext};
\* os = "" is no match
parseFilename(filename) ==
  CASE filename = "spacerun-1.0.0-arm64-macos.dmg" ->
         [os |-> "macos", arch |-> "arm64", type |-> "installer"]
    [] filename = "spacerun-1.0.0-x64-windows.zip" ->
         [os |-> "windows", arch |-> "x64", type |-> "patch"]
    [] OTHER -> [os |-> NoName, arch |-> NoName, type |-> NoName]

\* statSync(filePath).size of a file with the given content
fileSize(content) == IF content = "c1" THEN 1 ELSE 2

\* a url is the sequence of the parts its text has between the slashes:
\* https://cdn/archive/stable/1.0.0/macos/arm64/f.dmg is
\* <<"https:", "", "cdn", "archive", "stable", "1.0.0", "macos", "arm64", "f.dmg">>,
\* a text that ends with a slash has the last part ""; <<>> is no url
NoUrl == <<>>

\* the CDN_URL of the configuration, the one derived from the project url:
\* https://cdn/storage/v1/object/public/
cdnUrl == <<"https:", "", "cdn", "storage", "v1", "object", "public", "">>

\* the base with one slash at its end, then archive/ and the storage path
buildCdnUrl(baseUrl, storagePath) ==
  LET endsWithSlash == Len(baseUrl) > 1 /\ baseUrl[Len(baseUrl)] = ""
      normalizedBase == IF endsWithSlash THEN baseUrl ELSE baseUrl \o <<"">>
  IN  SubSeq(normalizedBase, 1, Len(normalizedBase) - 1) \o <<"archive">> \o storagePath

\* url.match(/\/archive\/(.+)$/)[1]: what follows the first /archive/ of
\* the url's text, <<>> when there is no match.  A part named archive
\* matches when a slash precedes it (it is not the first part), a slash
\* follows it and the text after that slash is not empty.
archiveMatch(url) ==
  LET hits == {i \in 2..(Len(url) - 1) :
                 /\ url[i] = "archive"
                 /\ SubSeq(url, i + 1, Len(url)) # <<"">>}
      first == CHOOSE i \in hits : \A j \in hits : i <= j
  IN  IF hits = {} THEN <<>> ELSE SubSeq(url, first + 1, Len(url))

BuildKey(b) == <<b.version_id, b.os, b.arch, b.type, b.distribution, b.variant>>

\* the id column of a build row: an upsert on the identity keeps it, a row
\* inserted again gets another one
BuildId(b) == <<BuildKey(b), b.created_at>>

\* builds_version_id_fkey: the version row a build row points to exists
HasVersion(vs, id) == \E v \in vs : VersionId(v) = id

\* a variant that inserts without looking for a conflicting row
UpsertAppend(bs, row, keepMetadata) == bs \cup {row}

\* upsert with onConflict on the identity: an existing row keeps the columns
\* the payload does not carry (platform_metadata when absent, created_at)
Upsert(bs, row, keepMetadata) ==
  IF \E b \in bs : BuildKey(b) = BuildKey(row)
  THEN LET old == CHOOSE b \in bs : BuildKey(b) = BuildKey(row)
       IN  (bs \ {old}) \cup
             {[row EXCEPT !.created_at = old.created_at,
                          !.platform_metadata =
                             IF keepMetadata THEN old.platform_metadata ELSE @]}
  ELSE bs \cup {row}

IsInsert(bs, row) == ~\E b \in bs : BuildKey(b) = BuildKey(row)

uploadBuildCall(version, filename, content, o, fails) ==
  NewCall("uploadBuild", "lookup",
          [version |-> version, filename |-> filename, content |-> content, o |-> o,
           fails |-> fails])

\* uploadBuild: the version lookup, the upload of the file, the upsert of
\* the row
uploadBuildStep(S, c) ==
  LET version == c.args.version
      filename == c.args.filename
      content == c.args.content
      o == c.args.o
      channel == ChannelOf(o.channel)
      distribution == IF o.distribution # NoName THEN o.distribution ELSE "direct"
      variant == IF o.variant # NoName THEN o.variant ELSE DEFAULT_VARIANT
      found == VersionRows(S.versions, version, channel)
      versionData == CHOOSE v \in c.read.versionData : TRUE
      parsed == parseFilename(filename)
      os == IF o.os # NoName THEN o.os ELSE parsed.os
      arch == IF o.arch # NoName THEN o.arch ELSE parsed.arch
      type == IF o.type # NoName THEN o.type ELSE parsed.type
      invalid ==
        \/ ~isSupportedDistribution(distribution)
        \/ ~isValidVariant(variant)
      undetermined == os = NoName \/ arch = NoName \/ type = NoName
      storagePath == <<versionData.storage_key_prefix[1], versionData.storage_key_prefix[2],
                       os, arch, filename>>
      row ==
        [version_id |-> VersionId(versionData), os |-> os, arch |-> arch, type |-> type,
         distribution |-> distribution, variant |-> variant, package_name |-> filename,
         url |-> buildCdnUrl(cdnUrl, storagePath), size |-> fileSize(content),
         sha256_checksum |-> content, sha512_checksum |-> content,
         platform_metadata |-> [fallback_from |-> NoName, external |-> FALSE],
         created_at |-> S.clock + 1]
      call == [NoOp EXCEPT !.op = "uploadBuild", !.version = version, !.channel = o.channel,
                           !.os = os, !.arch = arch, !.type = type,
                           !.distribution = distribution, !.variant = variant]
  IN  CASE c.pc = "lookup" ->
             IF invalid THEN Finish(S, c, Rejected("uploadBuild", "invalid"))
             ELSE IF Fails(c, "lookup") \/ found = {}
             THEN Finish(S, c, Rejected("uploadBuild", "notfound"))
             ELSE IF undetermined \/ ~assertValidPlatform(os, arch, type)
             THEN Finish(S, c, Rejected("uploadBuild", "invalid"))
             ELSE [S |-> S, c |-> [c EXCEPT !.pc = "upload", !.read.versionData = found]]
        [] c.pc = "upload" ->
             IF Fails(c, "upload") THEN Finish(S, c, [call EXCEPT !.outcome = "failed"])
             ELSE Goto([S EXCEPT !.blobs = PutBlob(@, storagePath, content)], c, "upsert")
        [] c.pc = "upsert" ->
             IF Fails(c, "upsert") \/ ~HasVersion(S.versions, row.version_id)
             THEN Finish(S, c, [call EXCEPT !.outcome = "failed"])
             ELSE IF IsInsert(S.builds, row) /\ S.clock >= MaxClock THEN Blocked(S, c)
             ELSE Finish([S EXCEPT !.builds = Upsert(@, row, TRUE),
                                   !.clock = IF IsInsert(S.builds, row) THEN @ + 1 ELSE @],
                         c, [call EXCEPT !.outcome = "uploaded", !.result = row])

createBuildCall(version, os, arch, type, url, o, fails) ==
  NewCall("createBuild", "lookup",
          [version |-> version, os |-> os, arch |-> arch, type |-> type, url |-> url,
           o |-> o, fails |-> fails])

\* createBuild: the version lookup, the upsert of the row
createBuildStep(S, c) ==
  LET version == c.args.version
      os == c.args.os
      arch == c.args.arch
      type == c.args.type
      url == c.args.url
      o == c.args.o
      channel == ChannelOf(o.channel)
      distribution == IF o.distribution # NoName THEN o.distribution ELSE "store"
      variant == IF o.variant # NoName THEN o.variant ELSE DEFAULT_VARIANT
      found == VersionRows(S.versions, version, channel)
      versionData == CHOOSE v \in c.read.versionData : TRUE
      invalid ==
        \/ ~isSupportedDistribution(distribution)
        \/ ~isValidVariant(variant)
      missingField == os = NoName \/ arch = NoName \/ type = NoName \/ url = NoUrl
      row ==
        [version_id |-> VersionId(versionData), os |-> os, arch |-> arch, type |-> type,
         distribution |-> distribution, variant |-> variant,
         package_name |-> os \o "-" \o arch \o "-" \o type \o "-external",
         url |-> url, size |-> 0,
         sha256_checksum |-> NoName, sha512_checksum |-> NoName,
         platform_metadata |-> [fallback_from |-> NoName, external |-> distribution = "store"],
         created_at |-> S.clock + 1]
      call == [NoOp EXCEPT !.op = "createBuild", !.version = version, !.channel = o.channel,
                           !.os = os, !.arch = arch, !.type = type,
                           !.distribution = distribution, !.variant = variant]
  IN  CASE c.pc = "lookup" ->
             IF invalid THEN Finish(S, c, Rejected("createBuild", "invalid"))
             ELSE IF Fails(c, "lookup") \/ found = {}
             THEN Finish(S, c, Rejected("createBuild", "notfound"))
             ELSE IF missingField \/ ~assertValidPlatform(os, arch, type)
             THEN Finish(S, c, Rejected("createBuild", "invalid"))
             ELSE [S |-> S, c |-> [c EXCEPT !.pc = "upsert", !.read.versionData = found]]
        [] c.pc = "upsert" ->
             IF Fails(c, "upsert") \/ ~HasVersion(S.versions, row.version_id)
             THEN Finish(S, c, [call EXCEPT !.outcome = "failed"])
             ELSE IF IsInsert(S.builds, row) /\ S.clock >= MaxClock THEN Blocked(S, c)
             ELSE Finish([S EXCEPT !.builds = Upsert(@, row, FALSE),
                                   !.clock = IF IsInsert(S.builds, row) THEN @ + 1 ELSE @],
                         c, [call EXCEPT !.outcome = "created", !.result = row])

\* a variant that finds no dependents
dependentBuildsNone(bs, version) == {}

\* the builds whose platform_metadata->>fallback_from equals the version name
dependentBuilds(bs, version) ==
  {b \in bs : b.platform_metadata.fallback_from = version}

\* a variant that ignores the architecture of the dependents
slotConflictsOtherArch(dependents, os, arch, type) ==
  {b \in dependents : b.os = os /\ b.arch # arch /\ b.type = type}

\* deleteBuild keeps the dependents of the os/arch/type being deleted
slotConflicts(dependents, os, arch, type) ==
  {b \in dependents : b.os = os /\ b.arch = arch /\ b.type = type}

\* deleteBuild removes the blob of a build unless the build is external or
\* its url is outside /archive/
hasArchiveBlob(build) ==
  /\ ~build.platform_metadata.external
  /\ build.url # NoUrl
  /\ archiveMatch(build.url) # <<>>

\* a variant that reports a failed regeneration as a failed deletion
deleteBuildOutcomeFailing(published, regen) ==
  IF published /\ regen # "ok" THEN "failed" ELSE "deleted"

\* the catch around the regeneration turns its failure into a warning
deleteBuildOutcome(published, regen) ==
  IF published /\ regen # "ok" THEN "warning" ELSE "deleted"

\* the orders in which a query without an order clause can return rows
RowOrders(rows) ==
  {order \in [1..Cardinality(rows) -> rows] :
     \A i, j \in 1..Cardinality(rows) : i # j => order[i] # order[j]}

\* args.order is the order in which the store returns the matching builds;
\* it is known with the round trip that reads them
deleteBuildCall(version, os, arch, type, o, confirm, fails) ==
  NewCall("deleteBuild", "lookup",
          [version |-> version, os |-> os, arch |-> arch, type |-> type, o |-> o,
           confirm |-> confirm, fails |-> fails, order |-> <<>>])

\* the rows the builds query of deleteBuild matches in the store S
deleteBuildMatching(S, c) ==
  {b \in S.builds :
     /\ \E v \in c.read.versionData : b.version_id = VersionId(v)
     /\ b.os = c.args.os /\ b.arch = c.args.arch /\ b.type = c.args.type
     /\ (c.args.o.distribution # NoName => b.distribution = c.args.o.distribution)
     /\ (c.args.o.variant # NoName => b.variant = c.args.o.variant)}

\* the answers the store can give to the round trip the call makes next
deleteBuildOrders(S, c) ==
  IF c.pc = "builds" THEN RowOrders(deleteBuildMatching(S, c)) ELSE {c.args.order}

\* deleteBuild: the version lookup, the query of the matching builds, the
\* query of the dependents, then for every build read the removal of its
\* blob and the deletion of its row, then the round trips of
\* generateManifest and generateLatestManifest when the version was read as
\* published.  The matching builds come without an order clause, in the
\* order args.order; with an order the store cannot return there is no step.
deleteBuildStep(S, c) ==
  LET version == c.args.version
      os == c.args.os
      arch == c.args.arch
      type == c.args.type
      o == c.args.o
      channel == ChannelOf(o.channel)
      found == VersionRows(S.versions, version, channel)
      versionData == CHOOSE v \in c.read.versionData : TRUE
      matching == deleteBuildMatching(S, c)
      conflicts == slotConflicts(dependentBuilds(S.builds, version), os, arch, type)
      call == [NoOp EXCEPT !.op = "deleteBuild", !.version = version, !.channel = o.channel,
                           !.os = os, !.arch = arch, !.type = type,
                           !.distribution = o.distribution, !.variant = o.variant,
                           !.confirm = c.args.confirm]
      ended(regen) ==
        [call EXCEPT !.outcome = deleteBuildOutcome(versionData.is_published, regen),
                     !.deleted = c.read.rows, !.result = <<regen>>]
      \* the loop over the builds read: the next round trip for the rest
      loop(T, pending) ==
        IF pending # <<>>
        THEN [S |-> T, c |-> [c EXCEPT !.pc = IF hasArchiveBlob(Head(pending)) THEN "remove"
                                              ELSE "delete",
                                       !.read.pending = pending]]
        ELSE IF versionData.is_published THEN Goto(T, c, "manifestLookup")
        ELSE Finish(T, c, ended("ok"))
      build == Head(c.read.pending)
      \* after a round trip r of the manifest regeneration
      regenerated(r) ==
        IF r.c.pc = "threw"
        THEN Finish(r.S, c, ended(IF c.pc \in {"manifestLookup", "manifestBuilds",
                                                "manifestUpload"}
                                  THEN "failVersion" ELSE "failLatest"))
        ELSE IF r.c.pc = "manifestDone" THEN Goto(r.S, r.c, "latestVersions")
        ELSE IF r.c.pc = "latestDone" THEN Finish(r.S, r.c, ended("ok"))
        ELSE r
  IN  CASE c.pc = "lookup" ->
             IF Fails(c, "lookup") \/ found = {}
             THEN Finish(S, c, Rejected("deleteBuild", "notfound"))
             ELSE [S |-> S, c |-> [c EXCEPT !.pc = "builds", !.read.versionData = found]]
        [] c.pc = "builds" ->
             IF Fails(c, "builds") THEN Finish(S, c, Rejected("deleteBuild", "failed"))
             ELSE IF matching = {}
             THEN Finish(S, c, Rejected("deleteBuild", "notfound"))
             ELSE IF c.args.order \notin RowOrders(matching) THEN Blocked(S, c)
             ELSE [S |-> S, c |-> [c EXCEPT !.pc = "dependents",
                                            !.read.rows = matching,
                                            !.read.pending = c.args.order]]
        [] c.pc = "dependents" ->
             IF Fails(c, "dependents") THEN Finish(S, c, Rejected("deleteBuild", "failed"))
             ELSE IF conflicts # {}
             THEN Finish(S, c, [call EXCEPT !.outcome = "conflict", !.conflicts = conflicts])
             ELSE IF ~c.args.confirm
             THEN Finish(S, c, [call EXCEPT !.outcome = "canceled", !.conflicts = conflicts])
             ELSE loop(S, c.read.pending)
        [] c.pc = "remove" ->
             \* the result of storage.remove is not read and a throw is caught
             [S |-> IF Fails(c, "remove") THEN S
                    ELSE [S EXCEPT !.blobs = {b \in @ : b.path # archiveMatch(build.url)}],
              c |-> [c EXCEPT !.pc = "delete"]]
        [] c.pc = "delete" ->
             \* the fault "deleteNext" strikes the deletions after the first
             IF \/ Fails(c, "delete")
                \/ Fails(c, "deleteNext") /\ Len(c.read.pending) < Cardinality(c.read.rows)
             THEN Finish(S, c, [call EXCEPT !.outcome = "failed"])
             ELSE loop([S EXCEPT !.builds = {b \in @ : BuildId(b) # BuildId(build)}],
                       Tail(c.read.pending))
        [] c.pc \in ManifestSteps -> regenerated(manifestStep(S, c, version, channel))

\* the names of the folders below a version's prefix, in the order of a
\* storage listing
FolderNames == <<"android", "arm64", "ios", "linux", "macos", "windows", "x64", "x86">>

IsUnder(path, folder) ==
  Len(path) > Len(folder) /\ SubSeq(path, 1, Len(folder)) = folder

\* storage.list(folder): the files of the folder (the manifest.json of a
\* version's prefix, the artifacts of an {os}/{arch} folder) ...
listedFiles(S, folder) ==
  {m.path : m \in {x \in S.manifests : Len(folder) = 2 /\ x.path = VersionManifestPath(folder)}}
    \cup {b.path : b \in {x \in S.blobs : IsUnder(x.path, folder)
                                            /\ Len(x.path) = Len(folder) + 1}}

\* ... and its virtual folders
listedFolders(S, folder) ==
  LET names == {b.path[Len(folder) + 1] :
                  b \in {x \in S.blobs : IsUnder(x.path, folder)
                                           /\ Len(x.path) > Len(folder) + 1}}
      In(name) == name \in names
      Under(name) == Append(folder, name)
  IN  MapSeq(SelectSeq(FolderNames, In), Under)

deleteVersionCall(version, o, confirm, fails) ==
  NewCall("deleteVersion", "lookup",
          [version |-> version, o |-> o, confirm |-> confirm, fails |-> fails])

\* deleteVersion: the version lookup, the query of its builds, the query of
\* the dependents, the deletion of the build rows (when it read any) and of
\* the version row, then removeStorageFolder (for every folder, depth
\* first: the listing, the removal of its files, its sub-folders), then the
\* round trips of generateLatestManifest when the version was read as
\* published
deleteVersionStep(S, c) ==
  LET version == c.args.version
      o == c.args.o
      channel == ChannelOf(o.channel)
      found == VersionRows(S.versions, version, channel)
      versionData == CHOOSE v \in c.read.versionData : TRUE
      id == VersionId(versionData)
      dependents == dependentBuilds(S.builds, version)
      call == [NoOp EXCEPT !.op = "deleteVersion", !.version = version, !.channel = o.channel,
                           !.force = o.force, !.confirm = c.args.confirm]
      refused(outcome) == [call EXCEPT !.outcome = outcome, !.conflicts = dependents]
      ended(d, regenerated) ==
        [call EXCEPT
           !.outcome = IF ~d.read.cleanup \/ (versionData.is_published /\ ~regenerated)
                       THEN "warning" ELSE "deleted",
           !.conflicts = d.read.conflicts, !.deleted = d.read.rows,
           !.result = <<d.read.cleanup,
                        c.args.fails \cap {"latestVersions", "latestBuilds", "latestUpload"} = {}>>]
      \* after removeStorageFolder has returned or thrown
      cleaned(T, d) ==
        IF versionData.is_published THEN Goto(T, d, "latestVersions")
        ELSE Finish(T, d, ended(d, TRUE))
      \* the folders still to list
      descend(T, d, folders) ==
        IF folders = <<>> THEN cleaned(T, d)
        ELSE [S |-> T, c |-> [d EXCEPT !.pc = "list", !.read.folders = folders]]
      folder == Head(c.read.folders)
      files == listedFiles(S, folder)
      folders == listedFolders(S, folder) \o Tail(c.read.folders)
      \* after a round trip r of the channel manifest regeneration
      regenerated(r) ==
        IF r.c.pc = "threw" THEN Finish(r.S, c, ended(c, FALSE))
        ELSE IF r.c.pc = "latestDone" THEN Finish(r.S, r.c, ended(c, TRUE))
        ELSE r
  IN  CASE c.pc = "lookup" ->
             IF Fails(c, "lookup") \/ found = {}
             THEN Finish(S, c, Rejected("deleteVersion", "notfound"))
             ELSE [S |-> S, c |-> [c EXCEPT !.pc = "builds", !.read.versionData = found]]
        [] c.pc = "builds" ->
             IF Fails(c, "builds") THEN Finish(S, c, Rejected("deleteVersion", "failed"))
             ELSE [S |-> S,
                   c |-> [c EXCEPT !.pc = "dependents",
                                   !.read.rows = {b \in S.builds : b.version_id = id}]]
        [] c.pc = "dependents" ->
             IF Fails(c, "dependents") THEN Finish(S, c, Rejected("deleteVersion", "failed"))
             ELSE IF dependents # {} /\ ~o.force THEN Finish(S, c, refused("conflict"))
             ELSE IF versionData.is_published /\ ~o.force THEN Finish(S, c, refused("published"))
             ELSE IF ~c.args.confirm THEN Finish(S, c, refused("canceled"))
             ELSE [S |-> S,
                   c |-> [c EXCEPT !.pc = IF c.read.rows # {} THEN "deleteBuilds"
                                          ELSE "deleteVersion",
                                   !.read.conflicts = dependents]]
        [] c.pc = "deleteBuilds" ->
             IF Fails(c, "deleteBuilds") THEN Finish(S, c, [call EXCEPT !.outcome = "failed"])
             ELSE Goto([S EXCEPT !.builds = {b \in @ : b.version_id # id}], c, "deleteVersion")
        [] c.pc = "deleteVersion" ->
             \* builds.version_id references versions(id) on delete cascade
             IF Fails(c, "deleteVersion") THEN Finish(S, c, [call EXCEPT !.outcome = "failed"])
             ELSE [S |-> [S EXCEPT !.versions = {v \in @ : VersionId(v) # id},
                                   !.builds = {b \in @ : b.version_id # id}],
                   c |-> [c EXCEPT !.pc = "list",
                                   !.read.folders = <<versionData.storage_key_prefix>>]]
        [] c.pc = "list" ->
             IF Fails(c, IF Len(folder) = 2 THEN "list" ELSE "listFolder")
             THEN cleaned(S, [c EXCEPT !.read.cleanup = FALSE])
             ELSE IF files # {}
             THEN [S |-> S, c |-> [c EXCEPT !.pc = "removeFiles", !.read.files = files,
                                            !.read.folders = folders]]
             ELSE descend(S, c, folders)
        [] c.pc = "removeFiles" ->
             IF Fails(c, "removeFiles") THEN cleaned(S, [c EXCEPT !.read.cleanup = FALSE])
             ELSE descend([S EXCEPT !.blobs = {b \in @ : b.path \notin c.read.files},
                                    !.manifests = {m \in @ : m.path \notin c.read.files}],
                          [c EXCEPT !.read.files = {}], c.read.folders)
        [] c.pc \in ManifestSteps -> regenerated(manifestStep(S, c, version, channel))

\* ------------------------------------------------------------- publish
RequiredCombinations ==
  << [os |-> "macos", arch |-> "arm64", type |-> "installer"],
     [os |-> "macos", arch |-> "x64", type |-> "installer"],
     [os |-> "windows", arch |-> "x64", type |-> "installer"],
     [os |-> "linux", arch |-> "x64", type |-> "installer"],
     [os |-> "ios", arch |-> "arm64", type |-> "installer"],
     [os |-> "android", arch |-> "arm64", type |-> "installer"] >>

FallbackLimit == 10

slotOf(b) == [os |-> b.os, arch |-> b.arch, type |-> b.type]

SeqRange(seq) == {seq[i] : i \in 1..Len(seq)}

Take(seq, n) == SubSeq(seq, 1, IF Len(seq) < n THEN Len(seq) ELSE n)

missingBuilds(existingBuilds) ==
  LET Missing(required) == ~\E b \in existingBuilds : slotOf(b) = required
  IN  SelectSeq(RequiredCombinations, Missing)

\* the choices offered for a missing slot, newest first
availableBuilds(vs, bs, channel, missing) ==
  LET channelVersionIds == {VersionId(v) : v \in {w \in vs : w.release_channel = channel}}
  IN  Take(OrderByCreatedAtDesc({b \in bs : b.version_id \in channelVersionIds
                                            /\ slotOf(b) = missing}),
           FallbackLimit)

\* a variant that records the publishing version as the origin
fallbackRowOwnName(versionData, source, createdAt) ==
  [version_id |-> VersionId(versionData), os |-> source.os, arch |-> source.arch,
   type |-> source.type,
   distribution |-> IF source.distribution # NoName THEN source.distribution ELSE "direct",
   variant |-> DEFAULT_VARIANT, package_name |-> source.package_name,
   url |-> source.url, size |-> source.size,
   sha256_checksum |-> source.sha256_checksum, sha512_checksum |-> source.sha512_checksum,
   platform_metadata |-> [fallback_from |-> versionData.version_name, external |-> FALSE],
   created_at |-> createdAt]

\* the row inserted for a chosen fallback; variant takes the column default
fallbackRow(versionData, source, createdAt) ==
  [version_id |-> VersionId(versionData), os |-> source.os, arch |-> source.arch,
   type |-> source.type,
   distribution |-> IF source.distribution # NoName THEN source.distribution ELSE "direct",
   variant |-> DEFAULT_VARIANT, package_name |-> source.package_name,
   url |-> source.url, size |-> source.size,
   sha256_checksum |-> source.sha256_checksum, sha512_checksum |-> source.sha512_checksum,
   platform_metadata |-> [fallback_from |-> source.version_id[1], external |-> FALSE],
   created_at |-> createdAt]

\* chosen: the builds the user takes at the prompts when they are among the
\* choices (a slot without one of them is skipped); confirm: --yes or the
\* answer to the publish prompt
publishVersionCall(version, o, chosen, confirm, fails) ==
  NewCall("publishVersion", "lookup",
          [version |-> version, o |-> o, chosen |-> chosen, confirm |-> confirm,
           fails |-> fails])

\* publishVersion: the version lookup, the query of its builds, the query
\* of the channel's versions, for every missing slot the query of the
\* available builds and the insert of the fallback taken at the prompt, the
\* two reads of the review manifest, the update of is_published, then the
\* round trips of generateManifest and generateLatestManifest
publishVersionStep(S, c) ==
  LET version == c.args.version
      o == c.args.o
      channel == ChannelOf(o.channel)
      found == VersionRows(S.versions, version, channel)
      versionData == CHOOSE v \in c.read.versionData : TRUE
      call == [NoOp EXCEPT !.op = "publishVersion", !.version = version, !.channel = o.channel,
                           !.confirm = c.args.confirm]
      ended(d, outcome) ==
        [call EXCEPT !.outcome = outcome, !.offered = d.read.offered,
                     !.assigned = d.read.assigned]
      \* the loop over the missing slots: the next round trip for the rest
      loop(T, d, missing) ==
        IF missing = <<>> \/ d.read.channelVersions = {}
        THEN [S |-> T, c |-> [d EXCEPT !.pc = "reviewLookup", !.read.missing = <<>>]]
        ELSE [S |-> T, c |-> [d EXCEPT !.pc = "available", !.read.missing = missing]]
      slot == Head(c.read.missing)
      available == SeqRange(availableBuilds(c.read.channelVersions, S.builds, channel, slot))
      taken == c.args.chosen \cap available
      source == CHOOSE b \in c.read.choice : TRUE
      row == fallbackRow(versionData, source, S.clock + 1)
      \* builds_version_id_fkey, the unique identity of a build row
      insertError ==
        \/ Fails(c, "insert")
        \/ ~HasVersion(S.versions, row.version_id)
        \/ ~IsInsert(S.builds, row)
      rows == VersionRows(S.versions, version, channel)
      \* after a round trip r of the manifest generation
      regenerated(r) ==
        IF r.c.pc = "threw" THEN Finish(r.S, c, ended(c, "failed"))
        ELSE IF r.c.pc = "manifestDone" THEN Goto(r.S, r.c, "latestVersions")
        ELSE IF r.c.pc = "latestDone" THEN Finish(r.S, r.c, ended(c, "published"))
        ELSE r
  IN  CASE c.pc = "lookup" ->
             IF Fails(c, "lookup") \/ found = {}
             THEN Finish(S, c, Rejected("publishVersion", "notfound"))
             ELSE [S |-> S, c |-> [c EXCEPT !.pc = "existing", !.read.versionData = found]]
        [] c.pc = "existing" ->
             LET existingBuilds == {b \in S.builds : b.version_id = VersionId(versionData)}
                 missing == missingBuilds(existingBuilds)
             IN  IF Fails(c, "existing") THEN Finish(S, c, ended(c, "failed"))
                 ELSE IF missing = <<>> THEN Goto(S, c, "reviewLookup")
                 ELSE [S |-> S, c |-> [c EXCEPT !.pc = "channelVersions",
                                                !.read.missing = missing]]
        [] c.pc = "channelVersions" ->
             IF Fails(c, "channelVersions") THEN Finish(S, c, ended(c, "failed"))
             ELSE loop(S, [c EXCEPT !.read.channelVersions =
                                       {v \in S.versions : v.release_channel = channel}],
                       c.read.missing)
        [] c.pc = "available" ->
             IF Fails(c, "available") THEN Finish(S, c, ended(c, "failed"))
             ELSE IF Cardinality(taken) > 1 THEN Blocked(S, c)
             ELSE IF taken = {}
             THEN loop(S, [c EXCEPT !.read.offered = @ \cup available], Tail(c.read.missing))
             ELSE [S |-> S, c |-> [c EXCEPT !.pc = "insert", !.read.choice = taken,
                                            !.read.offered = @ \cup available]]
        [] c.pc = "insert" ->
             IF insertError THEN loop(S, [c EXCEPT !.read.choice = {}], Tail(c.read.missing))
             ELSE IF S.clock >= MaxClock THEN Blocked(S, c)
             ELSE loop([S EXCEPT !.builds = @ \cup {row}, !.clock = @ + 1],
                       [c EXCEPT !.read.choice = {},
                                 !.read.assigned = @ \cup {[source |-> source,
                                                           inserted |-> row]}],
                       Tail(c.read.missing))
        [] c.pc = "reviewLookup" ->
             IF Fails(c, "reviewLookup") \/ rows = {} THEN Finish(S, c, ended(c, "failed"))
             ELSE Goto(S, c, "reviewBuilds")
        [] c.pc = "reviewBuilds" ->
             IF Fails(c, "reviewBuilds") THEN Finish(S, c, ended(c, "failed"))
             ELSE IF ~c.args.confirm THEN Finish(S, c, ended(c, "canceled"))
             ELSE Goto(S, c, "publish")
        [] c.pc = "publish" ->
             IF Fails(c, "publish") THEN Finish(S, c, ended(c, "failed"))
             ELSE Goto([S EXCEPT !.versions =
                                    (@ \ rows) \cup {[v EXCEPT !.is_published = TRUE] : v \in rows}],
                       c, "manifestLookup")
        [] c.pc \in ManifestSteps -> regenerated(manifestStep(S, c, version, channel))

generateManifestCall(version, o, fails) ==
  NewCall("generateManifest", "manifestLookup", [version |-> version, o |-> o, fails |-> fails])

\* a variant that withdraws the version when its manifest is stored
generateManifestStepWithdrawing(S, c) ==
  LET version == c.args.version
      channel == ChannelOf(c.args.o.channel)
      found == VersionRows(S.versions, version, channel)
      call == [NoOp EXCEPT !.op = "generateManifest", !.version = version,
                           !.channel = c.args.o.channel]
      generated(r) ==
        IF r.c.pc = "threw"
        THEN Finish(r.S, c, IF c.pc = "manifestLookup"
                            THEN Rejected("generateManifest", "notfound")
                            ELSE [call EXCEPT !.outcome = "failed"])
        ELSE IF r.c.pc = "manifestDone"
        THEN Finish([r.S EXCEPT !.versions =
                                   (@ \ found) \cup {[v EXCEPT !.is_published = FALSE] : v \in found}],
                    r.c, [call EXCEPT !.outcome = "generated"])
        ELSE r
  IN  generated(manifestStep(S, c, version, channel))

\* the manifest:generate command: the round trips of generateManifest
generateManifestStep(S, c) ==
  LET version == c.args.version
      channel == ChannelOf(c.args.o.channel)
      call == [NoOp EXCEPT !.op = "generateManifest", !.version = version,
                           !.channel = c.args.o.channel]
      generated(r) ==
        IF r.c.pc = "threw"
        THEN Finish(r.S, c, IF c.pc = "manifestLookup"
                            THEN Rejected("generateManifest", "notfound")
                            ELSE [call EXCEPT !.outcome = "failed"])
        ELSE IF r.c.pc = "manifestDone"
        THEN Finish(r.S, r.c, [call EXCEPT !.outcome = "generated"])
        ELSE r
  IN  generated(manifestStep(S, c, version, channel))

\* ----------------------------------------------------- update evaluator
\* a variant that accepts a version without builds
hasCompatibleBuildAlways(platforms, os, arch) == TRUE

hasCompatibleBuild(platforms, os, arch) ==
  \E i \in 1..Len(platforms) :
     /\ platforms[i].os = os
     /\ platforms[i].arch = arch
     /\ (platforms[i].type = "installer" \/ platforms[i].type = "patch")

\* the predicate of orderedVersions.find
isEligible(version, installedVersion, os, arch, o, now) ==
  IF ~isVersionGreater(version.version_name, installedVersion) THEN FALSE
  ELSE IF ~o.allowPrerelease /\ semverPrerelease(version.version_name) THEN FALSE
  ELSE LET policy == getUpdatePolicyFromVersion(version.row)
       IN  IF ~isWithinRolloutWindow(policy, now) THEN FALSE
           ELSE IF ~isDeviceInRolloutBucket(o.deviceId, policy.rolloutPercentage) THEN FALSE
           ELSE hasCompatibleBuild(version.platforms, os, arch)

\* Array.prototype.find: the index of the first element passing, 0 if none
FindFirst(seq, Test(_)) ==
  IF \E i \in 1..Len(seq) : Test(seq[i])
  THEN CHOOSE i \in 1..Len(seq) : Test(seq[i]) /\ \A j \in 1..(i - 1) : ~Test(seq[j])
  ELSE 0

\* a variant that also reads unpublished versions
candidateVersionsAnyState(vs, requestedChannel) ==
  {v \in vs : v.release_channel = requestedChannel}

\* a variant that reads only the versions whose stored manifest is current
candidateVersionsWithManifest(vs, requestedChannel) ==
  {v \in vs :
     /\ v.is_published /\ v.release_channel = requestedChannel
     /\ StoredManifest(manifests, VersionManifestPath(v.storage_key_prefix))
          = buildVersionManifest(vs, builds, v.version_name, v.release_channel)}

\* the rows the evaluator reads
candidateVersions(vs, requestedChannel) ==
  {v \in vs : v.is_published /\ v.release_channel = requestedChannel}

\* a variant that reports the flag of the version row alone
isMinSupportedBlockedNever(policy, installedVersion) == FALSE

isMinSupportedBlocked(policy, installedVersion) ==
  /\ policy.minSupportedVersion # NoName
  /\ semverValid(policy.minSupportedVersion)
  /\ semverLt(installedVersion, policy.minSupportedVersion)

\* the mandatory flag reported for the eligible version
mandatoryFor(eligible, installedVersion) ==
  \/ eligible.row.is_mandatory
  \/ isMinSupportedBlocked(getUpdatePolicyFromVersion(eligible.row), installedVersion)

\* a variant that prefers the installer
rankBuildTypeInstallerFirst(type) == IF type = "patch" THEN 1 ELSE 0

rankBuildType(type) == IF type = "patch" THEN 0 ELSE 1

\* the comparator of selectPreferredBuild
preferredCompare(a, b) ==
  LET typeOrder == rankBuildType(a.type) - rankBuildType(b.type)
      distributionOrder == rankDistribution(resolveDistribution(a))
                             - rankDistribution(resolveDistribution(b))
  IN  IF typeOrder # 0 THEN typeOrder
      ELSE IF distributionOrder # 0 THEN distributionOrder
      ELSE b.createdAt - a.createdAt

\* the selected build as a sequence: <<>> is null, <<b>> the build b
selectPreferredBuild(platforms, os, arch) ==
  LET In(build) == /\ build.os = os
                   /\ build.arch = arch
                   /\ (build.type = "patch" \/ build.type = "installer")
      candidates == SelectSeq(platforms, In)
      sorted == StableSort(candidates, preferredCompare)
  IN  IF Len(candidates) = 0 THEN <<>>
      ELSE <<[sorted[1] EXCEPT !.distribution = resolveDistribution(sorted[1])]>>

checkForUpdateCall(installedVersion, os, arch, o, now, fails) ==
  NewCall("checkForUpdate", "versions",
          [installedVersion |-> installedVersion, os |-> os, arch |-> arch, o |-> o,
           now |-> now, fails |-> fails])

\* checkForUpdate: the validations and the query of the published versions
\* of the channel, then the query of the builds of those versions and the
\* evaluation
checkForUpdateStep(S, c) ==
  LET installedVersion == c.args.installedVersion
      os == c.args.os
      arch == c.args.arch
      o == c.args.o
      now == c.args.now
      invalid ==
        \/ ~semverValid(installedVersion)
        \/ ~assertValidPlatform(os, arch, NoName)
        \/ (o.channel # NoName /\ ~isSupportedChannel(o.channel))
      requestedChannel == ChannelOf(o.channel)
      rows == candidateVersions(S.versions, requestedChannel)
      versionBuilds == {b \in S.builds : \E v \in c.read.rows : b.version_id = VersionId(v)}
      orderedVersions == sortVersionsDesc(versionsWithPlatforms(c.read.rows, versionBuilds))
      Passes(version) == isEligible(version, installedVersion, os, arch, o, now)
      eligible == FindFirst(orderedVersions, Passes)
      call == [NoOp EXCEPT !.op = "checkForUpdate", !.installed = installedVersion,
                           !.os = os, !.arch = arch, !.channel = o.channel,
                           !.deviceId = o.deviceId, !.allowPrerelease = o.allowPrerelease,
                           !.now = now]
  IN  CASE c.pc = "versions" ->
             IF invalid THEN Finish(S, c, [call EXCEPT !.outcome = "invalid"])
             ELSE IF Fails(c, "versions") THEN Finish(S, c, [call EXCEPT !.outcome = "failed"])
             ELSE IF rows = {} THEN Finish(S, c, [call EXCEPT !.outcome = "noversions"])
             ELSE [S |-> S, c |-> [c EXCEPT !.pc = "builds", !.read.rows = rows]]
        [] c.pc = "builds" ->
             IF Fails(c, "builds") THEN Finish(S, c, [call EXCEPT !.outcome = "failed"])
             ELSE IF eligible = 0 THEN Finish(S, c, [call EXCEPT !.outcome = "none"])
             ELSE Finish(S, c,
                         [call EXCEPT !.outcome = "update",
                                      !.target = orderedVersions[eligible].version_name,
                                      !.mandatory = mandatoryFor(orderedVersions[eligible],
                                                                 installedVersion),
                                      !.result = selectPreferredBuild(
                                                   orderedVersions[eligible].platforms,
                                                   os, arch)])

\* ------------------------------------------------------------ processes
\* what is left of a command that has returned or exited: its name and its
\* report
Ended(c) == [NoCall EXCEPT !.op = c.op, !.report = c.report]

\* one round trip of the command c of process p; other processes may make
\* theirs before the next one.  lastOp is the report of the command that
\* ends with this round trip.
RoundTrip(Step(_, _), p, c) ==
  \E r \in {Step(Store, c)} :
      /\ r.c.pc # "blocked"
      /\ versions' = r.S.versions
      /\ builds' = r.S.builds
      /\ blobs' = r.S.blobs
      /\ manifests' = r.S.manifests
      /\ clock' = r.S.clock
      /\ calls' = [calls EXCEPT ![p] = IF r.c.pc = "done" THEN Ended(r.c) ELSE r.c]
      /\ lastOp' = IF r.c.pc = "done" THEN r.c.report ELSE NoOp

Running(p) == calls[p].pc # "done"

\* no command is running: commands are not re-entrant, the systems that run
\* them one at a time start a command only then
NoneRunning == \A p \in Procs : ~Running(p)

\* process p starts the command c: what precedes its first await and its
\* first round trip; c.before keeps the store the command was started in
Start(Step(_, _), p, c) ==
  ~Running(p) /\ RoundTrip(Step, p, [c EXCEPT !.before = Store])

\* process p goes on with its command of the handler op
Continue(Step(_, _), p, op) ==
  Running(p) /\ calls[p].op = op /\ RoundTrip(Step, p, calls[p])

\* the store in which the command that is running, or that starts in this
\* state, was started
Began == IF Running(1) THEN calls[1].before ELSE Store

Rows(S) == <<S.versions, S.builds, S.blobs, S.manifests>>

\* the first round trip of a command entered at the terminal of process 1;
\* Continue makes the round trips that follow
CreateVersion(version, o, fails) ==
  Start(createVersionStep, 1, createVersionCall(version, o, fails))

SetVersionPolicy(version, o, fails) ==
  Start(setVersionPolicyStep, 1, setVersionPolicyCall(version, o, fails))

UploadBuild(version, filename, content, o, fails) ==
  Start(uploadBuildStep, 1, uploadBuildCall(version, filename, content, o, fails))

CreateBuild(version, os, arch, type, url, o, fails) ==
  Start(createBuildStep, 1, createBuildCall(version, os, arch, type, url, o, fails))

DeleteBuild(version, os, arch, type, o, confirm, fails) ==
  Start(deleteBuildStep, 1, deleteBuildCall(version, os, arch, type, o, confirm, fails))

DeleteVersion(version, o, confirm, fails) ==
  Start(deleteVersionStep, 1, deleteVersionCall(version, o, confirm, fails))

PublishVersion(version, o, chosen, confirm, fails) ==
  Start(publishVersionStep, 1, publishVersionCall(version, o, chosen, confirm, fails))

\* the manifest:generate command
GenerateManifest(version, o, fails) ==
  Start(generateManifestStep, 1, generateManifestCall(version, o, fails))

CheckForUpdate(installedVersion, os, arch, o, now, fails) ==
  Start(checkForUpdateStep, 1, checkForUpdateCall(installedVersion, os, arch, o, now, fails))


\* the next round trip of a running command
ContinueSetVersionPolicy ==
  \E p \in Procs : /\ Running(p) /\ Continue(setVersionPolicyStep, p, "setVersionPolicy")

ContinueUploadBuild ==
  \E p \in Procs : /\ Running(p) /\ Continue(uploadBuildStep, p, "uploadBuild")

ContinueCreateBuild ==
  \E p \in Procs : /\ Running(p) /\ Continue(createBuildStep, p, "createBuild")

\* the round trip that reads the matching builds gets them in one of the
\* orders the store can return
ContinueDeleteBuild ==
  \E p \in Procs :
     /\ Running(p)
     /\ calls[p].op = "deleteBuild"
     /\ \E order \in deleteBuildOrders(Store, calls[p]) :
           RoundTrip(deleteBuildStep, p, [calls[p] EXCEPT !.args.order = order])

ContinueDeleteVersion ==
  \E p \in Procs : /\ Running(p) /\ Continue(deleteVersionStep, p, "deleteVersion")

ContinuePublishVersion ==
  \E p \in Procs : /\ Running(p) /\ Continue(publishVersionStep, p, "publishVersion")

ContinueGenerateManifest ==
  \E p \in Procs : /\ Running(p) /\ Continue(generateManifestStep, p, "generateManifest")

ContinueCheckForUpdate ==
  \E p \in Procs : /\ Running(p) /\ Continue(checkForUpdateStep, p, "checkForUpdate")

\* ------------------------------------------------- the lifecycle system
\* Versions 1.0.0 and 1.1.0 of the stable channel, created in either order,
\* with direct uploads, store listings, fallbacks, publishes and deletions.
VersionOptions(channel, rollout, startAt, endAt) ==
  [channel |-> channel, minSupported |-> NoName, rollout |-> rollout,
   rolloutStartAt |-> startAt, rolloutEndAt |-> endAt, mandatory |-> FALSE]

BuildOptions(channel, distribution, variant) ==
  [os |-> NoName, arch |-> NoName, type |-> NoName, channel |-> channel,
   distribution |-> distribution, variant |-> variant]

LifecycleNames == {"1.0.0", "1.1.0"}

LifecycleFiles ==
  {<<"1.0.0", "spacerun-1.0.0-arm64-macos.dmg">>, <<"1.1.0", "spacerun-1.0.0-arm64-macos.dmg">>,
   <<"1.0.0", "spacerun-1.0.0-x64-windows.zip">>}

LcCreateVersion ==
  /\ NoneRunning
  /\ \E v \in LifecycleNames : CreateVersion(v, VersionOptions(NoName, NoNumber, NoTime, NoTime), {})

LcUploadBuild ==
  /\ NoneRunning
  /\ \E f \in LifecycleFiles :
        UploadBuild(f[1], f[2], "c1", BuildOptions(NoName, NoName, NoName), {})

\* the listings of build:create: a store page, and the direct download that
\* is the public url of the archive blob of the 1.0.0 upload
LifecycleListings ==
  {[url |-> <<"https:", "", "store", "app">>, distribution |-> NoName],
   [url |-> buildCdnUrl(cdnUrl, <<"stable", "1.0.0", "macos", "arm64",
                                  "spacerun-1.0.0-arm64-macos.dmg">>),
    distribution |-> "direct"]}

LcCreateBuild ==
  /\ NoneRunning
  /\ \E v \in LifecycleNames, l \in LifecycleListings :
        CreateBuild(v, "macos", "arm64", "installer", l.url,
                    BuildOptions(NoName, l.distribution, NoName), {})

LcDeleteBuild ==
  /\ NoneRunning
  /\ \E v \in LifecycleNames :
        DeleteBuild(v, "macos", "arm64", "installer", BuildOptions(NoName, NoName, NoName),
                    TRUE, {})

LcDeleteVersion ==
  /\ NoneRunning
  /\ \E v \in LifecycleNames, force \in BOOLEAN :
        DeleteVersion(v, [channel |-> NoName, force |-> force], TRUE, {})

\* the builds a prompt of publishVersion(version) can offer: those of the
\* channel that fill a required slot the version has no build for
Offerable(version, channel) ==
  {b \in builds :
     /\ b.version_id[2] = channel
     /\ \E i \in 1..Len(RequiredCombinations) : RequiredCombinations[i] = slotOf(b)
     /\ \E v \in VersionRows(versions, version, channel) :
           ~\E own \in builds : own.version_id = VersionId(v) /\ slotOf(own) = slotOf(b)}

LcPublishVersion ==
  /\ NoneRunning
  /\ \E v \in LifecycleNames, confirm \in BOOLEAN :
        \E chosen \in {{}} \cup {{b} : b \in Offerable(v, "stable")} :
           PublishVersion(v, [channel |-> NoName], chosen, confirm, {})

NextLifecycle ==
  \/ LcCreateVersion
  \/ LcUploadBuild
  \/ LcCreateBuild
  \/ LcDeleteBuild
  \/ LcDeleteVersion
  \/ LcPublishVersion
  \/ ContinueUploadBuild
  \/ ContinueCreateBuild
  \/ ContinueDeleteBuild
  \/ ContinueDeleteVersion
  \/ ContinuePublishVersion

SpecLifecycle == Init /\ [][NextLifecycle]_vars

\* ------------------------------------------------------ the command system
\* The commands index.ts registers, entered one after the other at one
\* terminal: version:create with and without a rollout option,
\* version:policy, build:upload, build:create, publish, manifest:generate and
\* update:check.  The concurrent system below enters them at two terminals.
\* deleteBuild and deleteVersion are exported by their modules but index.ts
\* registers no command for them: the systems that call them model a caller
\* of the exported handler.
CommandNames == {"1.0.0", "1.1.0"}

VersionCreate ==
  /\ NoneRunning
  /\ \E v \in CommandNames, rollout \in {NoNumber, 50} :
        CreateVersion(v, VersionOptions(NoName, rollout, NoTime, NoTime), {})

VersionPolicy ==
  /\ NoneRunning
  /\ SetVersionPolicy("1.1.0", VersionOptions(NoName, 10, NoTime, NoTime), {})

BuildUpload ==
  /\ NoneRunning
  /\ UploadBuild("1.0.0", "spacerun-1.0.0-arm64-macos.dmg", "c1",
                 BuildOptions(NoName, NoName, NoName), {})

BuildCreate ==
  /\ NoneRunning
  /\ CreateBuild("1.1.0", "macos", "arm64", "installer", <<"https:", "", "store", "app">>,
                 BuildOptions(NoName, NoName, NoName), {})

Publish ==
  /\ NoneRunning
  /\ \E v \in CommandNames :
        \E chosen \in {{}} \cup {{b} : b \in Offerable(v, "stable")} :
           PublishVersion(v, [channel |-> NoName], chosen, TRUE, {})

ManifestGenerate ==
  /\ NoneRunning
  /\ \E v \in CommandNames : GenerateManifest(v, [channel |-> NoName], {})

UpdateCheck ==
  /\ NoneRunning
  /\ CheckForUpdate("1.0.0", "macos", "arm64",
                    [channel |-> NoName, deviceId |-> <<49>>, allowPrerelease |-> FALSE], 1, {})

Next ==
  \/ VersionCreate
  \/ VersionPolicy
  \/ BuildUpload
  \/ BuildCreate
  \/ Publish
  \/ ManifestGenerate
  \/ UpdateCheck
  \/ ContinueSetVersionPolicy
  \/ ContinueUploadBuild
  \/ ContinueCreateBuild
  \/ ContinuePublishVersion
  \/ ContinueGenerateManifest
  \/ ContinueCheckForUpdate

Spec == Init /\ [][Next]_vars

\* ---------------------------------------------------- the update system
\* Versions of two channels with rollout policies, store listings for
\* macos/arm64, publishes, deletions and update checks.
UpdateVersionKeys ==
  {<<"1.1.0", NoName>>, <<"1.3.0-beta.1", NoName>>, <<"1.2.0", "beta">>}

UpdateCall(installed, channel, deviceId, now, allowPrerelease) ==
  [installed |-> installed, now |-> now,
   options |-> [channel |-> channel, deviceId |-> deviceId,
                allowPrerelease |-> allowPrerelease]]

UpdateCalls ==
  {UpdateCall("1.0.0", NoName, <<49>>, 2, FALSE),
   UpdateCall("1.1.0", NoName, <<97>>, 2, TRUE),
   UpdateCall("1.0.0", NoName, <<49>>, 1, TRUE),
   UpdateCall("1.0.0", NoName, <<>>, 2, TRUE),
   UpdateCall("1.0.0", "beta", <<49>>, 2, FALSE),
   UpdateCall("1.0.0", "beta", <<49>>, 2, TRUE)}

UpCreateVersion ==
  /\ NoneRunning
  /\ \E k \in UpdateVersionKeys :
        CreateVersion(k[1], VersionOptions(k[2], NoNumber, NoTime, NoTime), {})

UpSetVersionPolicy ==
  /\ NoneRunning
  /\ SetVersionPolicy("1.3.0-beta.1", VersionOptions(NoName, 50, 2, NoTime), {})

UpCreateBuild ==
  /\ NoneRunning
  /\ \E k \in UpdateVersionKeys :
        CreateBuild(k[1], "macos", "arm64", "installer", <<"https:", "", "store", "app">>,
                    BuildOptions(k[2], NoName, NoName), {})

UpPublishVersion ==
  /\ NoneRunning
  /\ \E k \in UpdateVersionKeys : PublishVersion(k[1], [channel |-> k[2]], {}, TRUE, {})

UpDeleteVersion ==
  /\ NoneRunning
  /\ DeleteVersion("1.1.0", [channel |-> NoName, force |-> TRUE], TRUE, {})

UpCheckForUpdate ==
  /\ NoneRunning
  /\ \E call \in UpdateCalls :
        CheckForUpdate(call.installed, "macos", "arm64", call.options, call.now, {})

NextUpdate ==
  \/ UpCreateVersion
  \/ UpSetVersionPolicy
  \/ UpCreateBuild
  \/ UpPublishVersion
  \/ UpDeleteVersion
  \/ UpCheckForUpdate
  \/ ContinueSetVersionPolicy
  \/ ContinueCreateBuild
  \/ ContinuePublishVersion
  \/ ContinueDeleteVersion
  \/ ContinueCheckForUpdate

SpecUpdate == Init /\ [][NextUpdate]_vars

\* ------------------------------------------------ the source selector system
\* buildPlatformsArray applied to lists of mapped build rows of one platform.
SourceCandidate(type, distribution, createdAt) ==
  [os |-> "macos", arch |-> "arm64", type |-> type, distribution |-> distribution,
   packageName |-> type \o "-" \o distribution,
   url |-> <<type \o "-" \o distribution>>, size |-> createdAt,
   platformMetadata |-> [fallback_from |-> NoName, external |-> distribution = "store"],
   createdAt |-> createdAt, sha256Checksum |-> NoName, sha512Checksum |-> NoName,
   sourceVersion |-> NoName]

SourceCandidates ==
  {SourceCandidate(type, distribution, createdAt) :
     type \in {"installer", "patch"}, distribution \in {"store", "direct"},
     createdAt \in 1..MaxStamp}

SourceInputs ==
  UNION {[1..n -> SourceCandidates] : n \in 0..MaxSources}

\* a list of candidates awaits the selector
InitSources ==
  /\ versions = {}
  /\ builds = {}
  /\ blobs = {}
  /\ manifests = {}
  /\ clock = 0
  /\ calls = [p \in Procs |-> NoCall]
  /\ \E input \in SourceInputs : lastOp = [NoOp EXCEPT !.input = input]

SelectSources ==
  /\ lastOp.op = "none"
  /\ lastOp' = [lastOp EXCEPT !.op = "buildPlatformsArray",
                              !.platforms = buildPlatformsArray(lastOp.input)]
  /\ UNCHANGED <<versions, builds, blobs, manifests, clock, calls>>

NextSources == SelectSources

SpecSources == InitSources /\ [][NextSources]_vars

\* ===================================================== properties
\* the version row a report is about, in a given set of rows
\* the build row belongs to the version row of the name and channel
OwnedBy(b, version, channel) == b.version_id[1] = version /\ b.version_id[2] = channel

OpRows(vs, op) == VersionRows(vs, op.version, ChannelOf(op.channel))

SemverMax(rows) ==
  CHOOSE v \in rows : \A w \in rows : ~semverGt(w.version_name, v.version_name)

\* C3: generateLatestManifest(channel) selects, for every (os, arch, type,
\* distribution) key that a published version of the channel has a build
\* for, exactly one build: one owned by the highest such version in
\* semantic-version order (whatever the creation order), annotated with
\* that version's name; it selects nothing else.
LatestSelectsHighestVersion ==
  \A channel \in SUPPORTED_CHANNELS :
    LET published == {v \in versions : v.is_published /\ v.release_channel = channel}
        selected == selectedBuildBySource(versions, builds, channel)
        keyOf(b) == <<b.os, b.arch, b.type, b.distribution>>
        owners(key) == {v \in published :
                          \E b \in builds : b.version_id = VersionId(v) /\ keyOf(b) = key}
        keys == {keyOf(b) : b \in {c \in builds : \E v \in published : c.version_id = VersionId(v)}}
    IN  /\ \A key \in keys :
             \E i \in 1..Len(selected) :
                /\ keyOf(selected[i]) = key
                /\ selected[i].sourceVersion = SemverMax(owners(key)).version_name
                /\ \E b \in builds :
                      /\ b.version_id = VersionId(SemverMax(owners(key)))
                      /\ keyOf(b) = key
                      /\ b.url = selected[i].url
                      /\ b.created_at = selected[i].createdAt
                /\ \A j \in 1..Len(selected) : keyOf(selected[j]) = key => j = i
        /\ \A i \in 1..Len(selected) : keyOf(selected[i]) \in keys

\* two published versions own a build for the same key and the lower
\* version was created later
WitnessLatestSelectsHighestVersion ==
  \E v, w \in versions :
     /\ v.is_published /\ w.is_published /\ v.release_channel = w.release_channel
     /\ semverGt(v.version_name, w.version_name)
     /\ v.created_at < w.created_at
     /\ \E b, c \in builds :
           /\ b.version_id = VersionId(v) /\ c.version_id = VersionId(w)
           /\ <<b.os, b.arch, b.type, b.distribution>> = <<c.os, c.arch, c.type, c.distribution>>
     /\ StoredManifest(manifests, ChannelManifestPath(v.release_channel)).exists

\* C4: when a publish regenerates a channel's latest manifest, no platform
\* slot (os, arch, type) that the manifest already had is supplied by an
\* older version than before.
LatestSlotNeverRegresses ==
  [][(lastOp'.op = "publishVersion" /\ lastOp'.outcome = "published") =>
       LET path == ChannelManifestPath(ChannelOf(lastOp'.channel))
           before == StoredManifest(Began.manifests, path)
           after == StoredManifest(manifests', path)
           primaryOf(doc, os, key) ==
             LET i == CHOOSE k \in DOMAIN doc.platforms : doc.platforms[k].os = os
             IN  doc.platforms[i].builds[key].primary
           slots(doc) == {<<doc.platforms[i].os, key>> :
                            i \in DOMAIN doc.platforms, key \in
                              UNION {DOMAIN doc.platforms[j].builds : j \in DOMAIN doc.platforms}}
           has(doc, slot) == \E i \in DOMAIN doc.platforms :
                                /\ doc.platforms[i].os = slot[1]
                                /\ slot[2] \in DOMAIN doc.platforms[i].builds
       IN  before.exists =>
             \A slot \in slots(before) :
                (has(before, slot) /\ has(after, slot)) =>
                   ~semverLt(primaryOf(after, slot[1], slot[2]).version,
                             primaryOf(before, slot[1], slot[2]).version)]_vars

\* C5: a deleteVersion call without force on a version that is published, or
\* whose name some build carries as fallback_from, changes no row, blob or
\* manifest and reports the referencing builds; with force (and the
\* confirmation) the version row and all its builds are gone afterwards.
DeleteVersionBlockedUnlessForced ==
  [][(lastOp'.op = "deleteVersion" /\ lastOp'.outcome # "notfound") =>
       LET target == CHOOSE v \in OpRows(Began.versions, lastOp') : TRUE
           referencing == {b \in Began.builds : b.platform_metadata.fallback_from = lastOp'.version}
           blocked == target.is_published \/ referencing # {}
       IN  /\ OpRows(Began.versions, lastOp') # {}
           /\ (blocked /\ ~lastOp'.force) =>
                 /\ store' = Rows(Began)
                 /\ lastOp'.outcome \in {"conflict", "published"}
                 /\ lastOp'.conflicts = referencing
                 /\ lastOp'.outcome = "conflict" <=> referencing # {}
           /\ (blocked /\ lastOp'.force /\ lastOp'.confirm) =>
                 /\ target \notin versions'
                 /\ OpRows(versions', lastOp') = {}
                 /\ \A b \in builds' : b.version_id # VersionId(target)
                 /\ lastOp'.deleted = {b \in Began.builds : b.version_id = VersionId(target)}]_vars

\* a non-forced deleteVersion was refused because builds reference the version
WitnessDeleteVersionBlocked ==
  /\ lastOp.op = "deleteVersion"
  /\ ~lastOp.force
  /\ lastOp.outcome = "conflict"
  /\ \E b \in builds : b.platform_metadata.fallback_from = lastOp.version
  /\ \E v \in OpRows(versions, lastOp) : ~v.is_published

\* C6: a deleteBuild call for a slot of a version whose name some build of
\* the same (os, arch, type) carries as fallback_from deletes no row and no
\* blob, leaves the manifests alone and reports those builds.
DeleteBuildBlockedByFallback ==
  [][lastOp'.op = "deleteBuild" =>
       LET referencing ==
             {b \in Began.builds :
                /\ b.platform_metadata.fallback_from = lastOp'.version
                /\ b.os = lastOp'.os /\ b.arch = lastOp'.arch /\ b.type = lastOp'.type}
       IN  /\ lastOp'.outcome = "notfound" => store' = Rows(Began)
           /\ (lastOp'.outcome # "notfound" /\ referencing # {}) =>
                 /\ store' = Rows(Began)
                 /\ lastOp'.outcome = "conflict"
                 /\ lastOp'.conflicts = referencing
           /\ lastOp'.outcome = "conflict" => referencing # {}]_vars

\* a deleteBuild was refused although the version owns a matching build
WitnessDeleteBuildBlocked ==
  /\ lastOp.op = "deleteBuild"
  /\ lastOp.outcome = "conflict"
  /\ lastOp.conflicts # {}
  /\ \E b \in builds :
        /\ OwnedBy(b, lastOp.version, ChannelOf(lastOp.channel))
        /\ b.os = lastOp.os /\ b.arch = lastOp.arch /\ b.type = lastOp.type

\* C7: after a successful publishVersion, and after a successful uploadBuild,
\* createBuild or deleteBuild on a published version, the stored version
\* manifest and the stored channel manifest are the ones the builders give
\* for the rows now in the store.
ManifestsFreshAfterMutation ==
  (/\ lastOp.op \in {"publishVersion", "uploadBuild", "createBuild", "deleteBuild"}
   /\ lastOp.outcome \in {"published", "uploaded", "created", "deleted"}
   /\ \E v \in OpRows(versions, lastOp) : v.is_published)
  =>
  LET channel == ChannelOf(lastOp.channel)
      row == CHOOSE v \in OpRows(versions, lastOp) : TRUE
  IN  /\ StoredManifest(manifests, VersionManifestPath(row.storage_key_prefix))
           = buildVersionManifest(versions, builds, lastOp.version, channel)
      /\ StoredManifest(manifests, ChannelManifestPath(channel))
           = latestManifest(versions, builds, channel)

\* C8: deleting builds that carry fallback_from leaves, for each of them, the
\* build rows of the version it was borrowed from and the blobs those rows
\* point to as they were.
DeleteFallbackKeepsSource ==
  [][(lastOp'.op = "deleteBuild" /\ lastOp'.outcome = "deleted") =>
       \A d \in lastOp'.deleted :
          d.platform_metadata.fallback_from # NoName =>
            \A src \in Began.builds :
               (/\ OwnedBy(src, d.platform_metadata.fallback_from, d.version_id[2])
                /\ slotOf(src) = slotOf(d)) =>
                  /\ src \in builds'
                  /\ \A blob \in Began.blobs : blob.path = archiveMatch(src.url) => blob \in blobs']_vars

\* C9: publishVersion offers fallbacks only for required installer slots the
\* version owns no build for; every chosen candidate adds exactly one row,
\* owned by the publishing version, with the url, size and checksums of the
\* chosen build and fallback_from naming the version that owns that build;
\* nothing else is inserted.
FallbackAssignmentCopiesSource ==
  [][(lastOp'.op = "publishVersion" /\ lastOp'.outcome # "notfound") =>
       LET self == <<lastOp'.version, ChannelOf(lastOp'.channel)>>
           required == {RequiredCombinations[i] : i \in DOMAIN RequiredCombinations}
           ownerName(b) == (CHOOSE v \in Began.versions : VersionId(v) = b.version_id).version_name
       IN  /\ \A b \in lastOp'.offered :
                /\ b \in Began.builds
                /\ b.type = "installer"
                /\ [os |-> b.os, arch |-> b.arch, type |-> b.type] \in required
                /\ ~\E own \in Began.builds : /\ OwnedBy(own, self[1], self[2])
                                        /\ own.os = b.os /\ own.arch = b.arch
                                        /\ own.type = b.type
                /\ b.version_id[2] = self[2]
           /\ builds' \ Began.builds = {a.inserted : a \in lastOp'.assigned}
           /\ Began.builds \subseteq builds'
           /\ Cardinality(builds' \ Began.builds) = Cardinality(lastOp'.assigned)
           /\ \A a \in lastOp'.assigned :
                /\ a.source \in lastOp'.offered
                /\ OwnedBy(a.inserted, self[1], self[2])
                /\ a.inserted.os = a.source.os /\ a.inserted.arch = a.source.arch
                /\ a.inserted.type = a.source.type
                /\ a.inserted.url = a.source.url
                /\ a.inserted.size = a.source.size
                /\ a.inserted.sha256_checksum = a.source.sha256_checksum
                /\ a.inserted.sha512_checksum = a.source.sha512_checksum
                /\ a.inserted.platform_metadata.fallback_from = ownerName(a.source)]_vars

\* a publish assigned a fallback and the copy is in the store
WitnessFallbackAssignment ==
  /\ lastOp.op = "publishVersion"
  /\ lastOp.outcome = "published"
  /\ lastOp.assigned # {}
  /\ \A a \in lastOp.assigned :
        a.inserted \in builds /\ a.source \in builds /\ a.source # a.inserted

\* the five gates of the evaluator for a version row and the call in a report
PassesGates(row, op) ==
  LET policy == getUpdatePolicyFromVersion(row)
      pct == policy.rolloutPercentage
  IN  /\ semverGt(row.version_name, op.installed)
      /\ (op.allowPrerelease \/ Parse(row.version_name)[4] = 0)
      /\ (policy.rolloutStartAt = NoTime \/ op.now >= policy.rolloutStartAt)
      /\ (policy.rolloutEndAt = NoTime \/ op.now <= policy.rolloutEndAt)
      /\ \/ pct >= 100
         \/ (pct > 0 /\ op.deviceId # <<>> /\ deviceHash(0, op.deviceId) % 100 < pct)
      /\ \E b \in builds :
            /\ b.version_id = VersionId(row)
            /\ b.os = op.os /\ b.arch = op.arch
            /\ b.type \in {"installer", "patch"}

Answered(op) ==
  op.op = "checkForUpdate" /\ op.outcome \in {"update", "none", "noversions"}

\* C1: checkForUpdate reports an update exactly when some published version
\* of the requested channel passes all five gates, and then its target is
\* the highest such version in semantic-version order.
CheckReportsHighestEligible ==
  Answered(lastOp) =>
    LET published == {v \in versions :
                        v.is_published /\ v.release_channel = ChannelOf(lastOp.channel)}
        passing == {v \in published : PassesGates(v, lastOp)}
    IN  /\ lastOp.outcome = "update" <=> passing # {}
        /\ lastOp.outcome = "update" =>
              lastOp.target = SemverMax(passing).version_name

\* an update was reported although a newer published version of the channel
\* passes every gate except the compatible-build one
WitnessSkipsVersionWithoutBuild ==
  /\ lastOp.op = "checkForUpdate"
  /\ lastOp.outcome = "update"
  /\ \E v \in versions :
        /\ v.is_published /\ v.release_channel = ChannelOf(lastOp.channel)
        /\ semverGt(v.version_name, lastOp.target)
        /\ ~\E b \in builds : b.version_id = VersionId(v)
        /\ isWithinRolloutWindow(getUpdatePolicyFromVersion(v), lastOp.now)
        /\ isDeviceInRolloutBucket(lastOp.deviceId, v.rollout_percentage)
        /\ (lastOp.allowPrerelease \/ ~semverPrerelease(v.version_name))

\* C2: every reported target is the name of a published version of the
\* requested channel and is strictly greater than the installed version.
TargetPublishedAndNewer ==
  (lastOp.op = "checkForUpdate" /\ lastOp.outcome = "update") =>
    /\ \E v \in versions :
          /\ v.version_name = lastOp.target
          /\ v.release_channel = ChannelOf(lastOp.channel)
          /\ v.is_published
    /\ semverCompare(lastOp.target, lastOp.installed) = 1

\* an update was reported while a newer unpublished version with a build was
\* in the channel and a version of the other channel was published
WitnessTargetPublishedAndNewer ==
  /\ lastOp.op = "checkForUpdate"
  /\ lastOp.outcome = "update"
  /\ \E v \in versions :
        /\ ~v.is_published /\ v.release_channel = ChannelOf(lastOp.channel)
        /\ semverGt(v.version_name, lastOp.target)
        /\ \E b \in builds : b.version_id = VersionId(v)

\* the entry of the (os, arch, type) group of a candidate in a platforms array
GroupEntry(platforms, c) ==
  LET k == CHOOSE i \in 1..Len(platforms) : platforms[i].os = c.os
  IN  platforms[k].builds[<<c.arch, c.type>>]

\* C10: in the result of buildPlatformsArray the primary source of every
\* (os, arch, type) group is one of the group's candidates, it is a store
\* candidate whenever the group has one, and no candidate of the primary's
\* distribution is newer than it.
PrimaryIsStoreThenNewest ==
  lastOp.op = "buildPlatformsArray" =>
    \A i \in 1..Len(lastOp.input) :
       LET c == lastOp.input[i]
           primary == GroupEntry(lastOp.platforms, c).primary
       IN  /\ \E j \in 1..Len(lastOp.input) :
                 LET d == lastOp.input[j]
                 IN  /\ d.os = c.os /\ d.arch = c.arch /\ d.type = c.type
                     /\ d.url = primary.url
                     /\ d.distribution = primary.distribution
                     /\ d.createdAt = primary.releaseDate
           /\ c.distribution = "store" => primary.distribution = "store"
           /\ c.distribution = primary.distribution => c.createdAt <= primary.releaseDate

\* a group with an older and a newer store candidate and a direct candidate
\* newer than the older store one, listed first
WitnessPrimaryIsStoreThenNewest ==
  /\ lastOp.op = "buildPlatformsArray"
  /\ \E i, j, k \in 1..Len(lastOp.input) :
        LET direct == lastOp.input[i]
            older == lastOp.input[j]
            newer == lastOp.input[k]
        IN  /\ i < j /\ j < k
            /\ direct.type = older.type /\ older.type = newer.type
            /\ direct.distribution = "direct"
            /\ older.distribution = "store" /\ newer.distribution = "store"
            /\ older.createdAt < newer.createdAt
            /\ older.createdAt < direct.createdAt
            /\ GroupEntry(lastOp.platforms, newer).primary.distribution = "store"
            /\ GroupEntry(lastOp.platforms, newer).primary.releaseDate = newer.createdAt

\* ------------------------------------------------ the policy resolver system
\* getUpdatePolicyFromVersion and buildVersionMetadataWithPolicy applied to
\* version rows whose columns and metadata document hold usable, unusable
\* and absent values.  "nightly" is no channel, "not-semver" no version.
PolicyDocuments ==
  [channel : {NoName, "alpha", "nightly"},
   minSupportedVersion : {NoName, "1.1.0", "not-semver"},
   rolloutPercentage : {NoNumber, 25, 150},
   rolloutStartAt : {NoTime, BlankTime, 1},
   rolloutEndAt : {NoTime}]

PolicySources ==
  [release_channel : {NoName, "beta", "nightly"},
   min_supported_version : {NoName, "1.0.0", "not-semver"},
   rollout_percentage : {NoNumber, -5, 50, 150},
   rollout_start_at : {NoTime, BlankTime, 2},
   rollout_end_at : {NoTime, 3},
   metadata : [updatePolicy : PolicyDocuments]]

\* the source with only a metadata document
DocumentOnly(metadata) ==
  [release_channel |-> NoName, min_supported_version |-> NoName,
   rollout_percentage |-> NoNumber, rollout_start_at |-> NoTime,
   rollout_end_at |-> NoTime, metadata |-> metadata]

\* a version row awaits the resolver
InitPolicy ==
  /\ versions = {}
  /\ builds = {}
  /\ blobs = {}
  /\ manifests = {}
  /\ clock = 0
  /\ calls = [p \in Procs |-> NoCall]
  /\ \E source \in PolicySources : lastOp = [NoOp EXCEPT !.input = source]

\* resolve, write the policy back into the document, resolve again from the
\* document alone and from the row carrying the new document
ResolvePolicy ==
  /\ lastOp.op = "none"
  /\ LET source == lastOp.input
         policy == getUpdatePolicyFromVersion(source)
         metadata == buildVersionMetadataWithPolicy(source.metadata, policy)
     IN  lastOp' = [lastOp EXCEPT
                      !.op = "getUpdatePolicyFromVersion",
                      !.result = [policy |-> policy, metadata |-> metadata,
                                  fromDocument |->
                                    getUpdatePolicyFromVersion(DocumentOnly(metadata)),
                                  fromRow |->
                                    getUpdatePolicyFromVersion(
                                      [source EXCEPT !.metadata = metadata])]]
  /\ UNCHANGED <<versions, builds, blobs, manifests, clock, calls>>

NextPolicy == ResolvePolicy

SpecPolicy == InitPolicy /\ [][NextPolicy]_vars

\* the first usable value of a field: column, then document, then default
FirstUsable(column, columnOk, document, documentOk, default) ==
  IF columnOk THEN column ELSE IF documentOk THEN document ELSE default

\* C11: every field of the resolved policy is the column when the column is
\* usable for the field, else the document's value when that is usable,
\* else the default; the channel is a supported one and the percentage is
\* within 0..100.
PolicyFollowsPrecedence ==
  lastOp.op = "getUpdatePolicyFromVersion" =>
    LET src == lastOp.input
        doc == src.metadata.updatePolicy
        policy == lastOp.result.policy
        bounded(n) == IF n < 0 THEN 0 ELSE IF n > 100 THEN 100 ELSE n
    IN  /\ policy.channel =
             FirstUsable(src.release_channel, src.release_channel \in SUPPORTED_CHANNELS,
                         doc.channel, doc.channel \in SUPPORTED_CHANNELS, "stable")
        /\ policy.minSupportedVersion =
             FirstUsable(src.min_supported_version, Parse(src.min_supported_version) # <<>>,
                         doc.minSupportedVersion, Parse(doc.minSupportedVersion) # <<>>,
                         NoName)
        /\ policy.rolloutPercentage =
             FirstUsable(bounded(src.rollout_percentage), src.rollout_percentage # NoNumber,
                         bounded(doc.rolloutPercentage), doc.rolloutPercentage # NoNumber,
                         100)
        /\ policy.rolloutStartAt =
             FirstUsable(src.rollout_start_at, src.rollout_start_at \notin {NoTime, BlankTime},
                         doc.rolloutStartAt, doc.rolloutStartAt # NoTime, NoTime)
        /\ policy.rolloutEndAt =
             FirstUsable(src.rollout_end_at, src.rollout_end_at \notin {NoTime, BlankTime},
                         doc.rolloutEndAt, doc.rolloutEndAt # NoTime, NoTime)
        /\ policy.channel \in SUPPORTED_CHANNELS
        /\ policy.rolloutPercentage \in 0..100

\* a row whose channel column is unusable while the document's is usable,
\* whose percentage column is out of range and whose start column is blank
WitnessPolicyFollowsPrecedence ==
  /\ lastOp.op = "getUpdatePolicyFromVersion"
  /\ lastOp.input.release_channel = "nightly"
  /\ lastOp.input.metadata.updatePolicy.channel = "alpha"
  /\ lastOp.result.policy.channel = "alpha"
  /\ lastOp.input.rollout_percentage = 150
  /\ lastOp.result.policy.rolloutPercentage = 100
  /\ lastOp.input.rollout_start_at = BlankTime
  /\ lastOp.input.metadata.updatePolicy.rolloutStartAt = 1
  /\ lastOp.result.policy.rolloutStartAt = 1

\* C12: the policy resolved from the document that
\* buildVersionMetadataWithPolicy builds from a row's document and resolved
\* policy equals that policy in all five fields, whether the document is
\* resolved alone or in place of the row's document.
PolicyResolutionIdempotent ==
  lastOp.op = "getUpdatePolicyFromVersion" =>
    \A f \in {"channel", "minSupportedVersion", "rolloutPercentage",
              "rolloutStartAt", "rolloutEndAt"} :
       /\ lastOp.result.fromDocument[f] = lastOp.result.policy[f]
       /\ lastOp.result.fromRow[f] = lastOp.result.policy[f]

\* a row whose columns and document disagree in every field they both carry
WitnessPolicyResolutionIdempotent ==
  /\ lastOp.op = "getUpdatePolicyFromVersion"
  /\ lastOp.input.release_channel = "beta"
  /\ lastOp.input.metadata.updatePolicy.channel = "alpha"
  /\ lastOp.input.min_supported_version = "1.0.0"
  /\ lastOp.input.metadata.updatePolicy.minSupportedVersion = "1.1.0"
  /\ lastOp.input.rollout_percentage = -5
  /\ lastOp.input.metadata.updatePolicy.rolloutPercentage = 150
  /\ lastOp.input.rollout_start_at = BlankTime
  /\ lastOp.input.metadata.updatePolicy.rolloutStartAt = BlankTime
  /\ lastOp.result.fromDocument = lastOp.result.policy

\* ------------------------------------------------ the rollout bucket system
\* isDeviceInRolloutBucket applied to device identifiers made of the
\* characters "1", "a" and "z" and to percentages below, inside, on the
\* borders of and above 0..100.
BucketChars == {49, 97, 122}

BucketIds == UNION {[1..n -> BucketChars] : n \in 0..MaxIdLen}

BucketPercentages == {-5, 0, 1, 22, 49, 50, 97, 99, 100, 150}

InitBucket ==
  /\ versions = {}
  /\ builds = {}
  /\ blobs = {}
  /\ manifests = {}
  /\ clock = 0
  /\ calls = [p \in Procs |-> NoCall]
  /\ \E id \in BucketIds, pct \in BucketPercentages :
        lastOp = [NoOp EXCEPT !.deviceId = id, !.input = pct]

TestBucket ==
  /\ lastOp.op = "none"
  /\ lastOp' = [lastOp EXCEPT !.op = "isDeviceInRolloutBucket",
                              !.result = isDeviceInRolloutBucket(lastOp.deviceId, lastOp.input)]
  /\ UNCHANGED <<versions, builds, blobs, manifests, clock, calls>>

NextBucket == TestBucket

SpecBucket == InitBucket /\ [][NextBucket]_vars

RECURSIVE Power31(_)
Power31(e) == IF e = 0 THEN 1 ELSE 31 * Power31(e - 1)

RECURSIVE PolynomialSum(_, _)
\* the sum of chars[i] * 31^(n - i) for i in 1..k, n the length of chars
PolynomialSum(chars, k) ==
  IF k = 0 THEN 0
  ELSE chars[k] * Power31(Len(chars) - k) + PolynomialSum(chars, k - 1)

\* C13: isDeviceInRolloutBucket is true for every percentage of 100 or more,
\* false for every percentage of 0 or less, false for an empty identifier
\* below 100, and otherwise true exactly when the hash of the identifier
\* modulo 100 is below the percentage; the hash of the fold
\* acc := (acc*31 + charCode) mod 1000 is the base-31 polynomial of the
\* character codes modulo 1000.
BucketMatchesHash ==
  lastOp.op = "isDeviceInRolloutBucket" =>
    LET id == lastOp.deviceId
        pct == lastOp.input
        h == PolynomialSum(id, Len(id)) % 1000
    IN  /\ pct >= 100 => lastOp.result = TRUE
        /\ pct <= 0 => lastOp.result = FALSE
        /\ (pct < 100 /\ id = <<>>) => lastOp.result = FALSE
        /\ (pct > 0 /\ pct < 100 /\ id # <<>>) => (lastOp.result = TRUE <=> (h % 100) < pct)

\* the identifier "1a" hashes to 616, bucket 16: above its bucket it is in
WitnessBucketMatchesHash ==
  /\ lastOp.op = "isDeviceInRolloutBucket"
  /\ lastOp.deviceId = <<49, 97>>
  /\ lastOp.input = 22
  /\ lastOp.result = TRUE

\* ------------------------------------------------ the mandatory-update system
\* Two stable versions created with or without the mandatory flag and a
\* minimum supported version, a later policy change, store listings,
\* publishes and update checks from installed versions below and at the
\* minimum.
MandatoryNames == {"1.2.0", "1.3.0"}

MandatoryOptions ==
  {[channel |-> NoName, minSupported |-> min, rollout |-> NoNumber,
    rolloutStartAt |-> NoTime, rolloutEndAt |-> NoTime, mandatory |-> flag] :
     min \in {NoName, "1.1.0"}, flag \in BOOLEAN}

MdCreateVersion ==
  /\ NoneRunning
  /\ \E v \in MandatoryNames, o \in MandatoryOptions : CreateVersion(v, o, {})

MdSetVersionPolicy ==
  /\ NoneRunning
  /\ SetVersionPolicy("1.2.0", [VersionOptions(NoName, NoNumber, NoTime, NoTime)
                                  EXCEPT !.minSupported = "1.1.0"], {})

MdCreateBuild ==
  /\ NoneRunning
  /\ \E v \in MandatoryNames :
        CreateBuild(v, "macos", "arm64", "installer", <<"https:", "", "store", "app">>,
                    BuildOptions(NoName, NoName, NoName), {})

MdPublishVersion ==
  /\ NoneRunning
  /\ \E v \in MandatoryNames : PublishVersion(v, [channel |-> NoName], {}, TRUE, {})

MdCheckForUpdate ==
  /\ NoneRunning
  /\ \E installed \in {"1.0.0", "1.1.0"} :
        CheckForUpdate(installed, "macos", "arm64",
                       [channel |-> NoName, deviceId |-> <<49>>, allowPrerelease |-> FALSE], 1, {})

NextMandatory ==
  \/ MdCreateVersion
  \/ MdSetVersionPolicy
  \/ MdCreateBuild
  \/ MdPublishVersion
  \/ MdCheckForUpdate
  \/ ContinueSetVersionPolicy
  \/ ContinueCreateBuild
  \/ ContinuePublishVersion
  \/ ContinueCheckForUpdate

SpecMandatory == Init /\ [][NextMandatory]_vars

\* C14: a reported update is mandatory exactly when the target's
\* is_mandatory flag is set or its minimum supported version is set, valid
\* and strictly above the installed version.
MandatoryIffFlagOrBelowMinimum ==
  (lastOp.op = "checkForUpdate" /\ lastOp.outcome = "update") =>
    \E row \in versions :
       /\ row.version_name = lastOp.target
       /\ row.release_channel = ChannelOf(lastOp.channel)
       /\ lastOp.mandatory <=>
            \/ row.is_mandatory
            \/ /\ row.min_supported_version # NoName
               /\ Parse(row.min_supported_version) # <<>>
               /\ semverCompare(row.min_supported_version, lastOp.installed) = 1

\* a target without the flag is reported mandatory because the installed
\* version is below its minimum supported version
WitnessMandatoryByMinimum ==
  /\ lastOp.op = "checkForUpdate"
  /\ lastOp.outcome = "update"
  /\ lastOp.mandatory
  /\ \E row \in versions :
        /\ row.version_name = lastOp.target
        /\ ~row.is_mandatory
        /\ row.min_supported_version = "1.1.0"
        /\ lastOp.installed = "1.0.0"

\* ------------------------------------------------ the build registry system
\* Uploads and store listings for one slot of one version, repeated with the
\* same identity and other attributes, and with another distribution or
\* variant.
RegistryUploads ==
  {[content |-> "c1", options |-> BuildOptions(NoName, NoName, NoName)],
   [content |-> "c2", options |-> BuildOptions(NoName, NoName, NoName)],
   [content |-> "c1", options |-> BuildOptions(NoName, NoName, "gl")],
   [content |-> "c1", options |-> BuildOptions(NoName, "store", NoName)]}

RegistryListings ==
  {[url |-> <<"https:", "", "store", "app">>, options |-> BuildOptions(NoName, NoName, NoName)],
   [url |-> <<"https:", "", "store", "app2">>, options |-> BuildOptions(NoName, NoName, NoName)],
   [url |-> <<"https:", "", "store", "app">>, options |-> BuildOptions(NoName, "direct", NoName)]}

RgCreateVersion ==
  /\ NoneRunning
  /\ CreateVersion("1.0.0", VersionOptions(NoName, NoNumber, NoTime, NoTime), {})

\* an upload whose storage upload or whose upsert may fail
RgUploadBuild ==
  /\ NoneRunning
  /\ \E u \in RegistryUploads, fails \in {{}, {"upload"}, {"upsert"}} :
        UploadBuild("1.0.0", "spacerun-1.0.0-arm64-macos.dmg", u.content, u.options, fails)

RgCreateBuild ==
  /\ NoneRunning
  /\ \E l \in RegistryListings :
        CreateBuild("1.0.0", "macos", "arm64", "installer", l.url, l.options, {})

NextRegistry ==
  \/ RgCreateVersion
  \/ RgUploadBuild
  \/ RgCreateBuild
  \/ ContinueUploadBuild
  \/ ContinueCreateBuild

SpecRegistry == Init /\ [][NextRegistry]_vars

\* C15: after every successful uploadBuild or createBuild no two build rows
\* share an identity (version_id, os, arch, type, distribution, variant); a
\* call whose identity was in the store leaves the number of rows unchanged
\* and the row of that identity carries the call's package name, url, size
\* and checksums; a call whose identity was not in the store adds one row;
\* rows of other identities are untouched.
OneRowPerIdentity ==
  [][(lastOp'.op \in {"uploadBuild", "createBuild"}
        /\ lastOp'.outcome \in {"uploaded", "created"}) =>
       LET sent == lastOp'.result
           key == BuildKey(sent)
           known == \E b \in Began.builds : BuildKey(b) = key
       IN  /\ \A b, c \in builds' : BuildKey(b) = BuildKey(c) => b = c
           /\ \A b \in Began.builds : BuildKey(b) # key => b \in builds'
           /\ \A b \in builds' : BuildKey(b) # key => b \in Began.builds
           /\ Cardinality(builds') = Cardinality(Began.builds) + (IF known THEN 0 ELSE 1)
           /\ \E b \in builds' :
                 /\ BuildKey(b) = key
                 /\ b.package_name = sent.package_name
                 /\ b.url = sent.url
                 /\ b.size = sent.size
                 /\ b.sha256_checksum = sent.sha256_checksum
                 /\ b.sha512_checksum = sent.sha512_checksum]_vars

\* a repeated upload replaced the content of a row while a row that differs
\* only in the variant and one that differs only in the distribution stay
WitnessOneRowPerIdentity ==
  /\ lastOp.op = "uploadBuild"
  /\ lastOp.outcome = "uploaded"
  /\ lastOp.result.sha256_checksum = "c2"
  /\ lastOp.result.created_at > 2
  /\ \E b, c, d \in builds :
        /\ BuildKey(b) = BuildKey(lastOp.result)
        /\ b.sha256_checksum = "c2"
        /\ b.created_at < lastOp.result.created_at
        /\ c.variant = "gl" /\ c.distribution = b.distribution
        /\ d.variant = b.variant /\ d.distribution # b.distribution

\* ----------------------------------------------------- the release system
\* Version 1.0.0 in the stable and the beta channel, with policy changes, an
\* uploaded build, store listings, publishes, manifest regeneration and
\* deletions.  The dates of the options are texts as an operator types them
\* (Typed) or texts of the form the store returns.
ReleaseChannels == {NoName, "beta"}

ReleaseCreations ==
  {[channel |-> NoName, minSupported |-> NoName, rollout |-> NoNumber,
    rolloutStartAt |-> NoTime, rolloutEndAt |-> NoTime, mandatory |-> FALSE],
   [channel |-> "beta", minSupported |-> "1.0.0", rollout |-> 50,
    rolloutStartAt |-> Typed(1), rolloutEndAt |-> 3, mandatory |-> FALSE]}

ReleasePolicies ==
  {[channel |-> "beta", minSupported |-> NoName, rollout |-> 25,
    rolloutStartAt |-> NoTime, rolloutEndAt |-> NoTime],
   [channel |-> NoName, minSupported |-> "1.0.0", rollout |-> NoNumber,
    rolloutStartAt |-> 2, rolloutEndAt |-> Typed(3)],
   [channel |-> "beta", minSupported |-> NoName, rollout |-> NoNumber,
    rolloutStartAt |-> Typed(4), rolloutEndAt |-> NoTime]}

RlCreateVersion ==
  /\ NoneRunning
  /\ \E o \in ReleaseCreations : CreateVersion("1.0.0", o, {})

RlSetVersionPolicy ==
  /\ NoneRunning
  /\ \E o \in ReleasePolicies : SetVersionPolicy("1.0.0", o, {})

RlUploadBuild ==
  /\ NoneRunning
  /\ UploadBuild("1.0.0", "spacerun-1.0.0-arm64-macos.dmg", "c1",
                 BuildOptions(NoName, NoName, NoName), {})

RlCreateBuild ==
  /\ NoneRunning
  /\ \E c \in ReleaseChannels :
        CreateBuild("1.0.0", "macos", "arm64", "installer", <<"https:", "", "store", "app">>,
                    BuildOptions(c, NoName, NoName), {})

\* a deletion of the builds of the slot, the upload and the listing, that
\* may fail after the first of them
RlDeleteBuild ==
  /\ NoneRunning
  /\ \E fails \in {{}, {"deleteNext"}} :
        DeleteBuild("1.0.0", "macos", "arm64", "installer",
                    BuildOptions(NoName, NoName, NoName), TRUE, fails)

RlPublishVersion ==
  /\ NoneRunning
  /\ \E c \in ReleaseChannels : PublishVersion("1.0.0", [channel |-> c], {}, TRUE, {})

RlGenerateManifest ==
  /\ NoneRunning
  /\ GenerateManifest("1.0.0", [channel |-> NoName], {})

RlDeleteVersion ==
  /\ NoneRunning
  /\ \E c \in ReleaseChannels :
        DeleteVersion("1.0.0", [channel |-> c, force |-> TRUE], TRUE, {})

NextRelease ==
  \/ RlCreateVersion
  \/ RlSetVersionPolicy
  \/ RlUploadBuild
  \/ RlCreateBuild
  \/ RlDeleteBuild
  \/ RlPublishVersion
  \/ RlGenerateManifest
  \/ RlDeleteVersion
  \/ ContinueSetVersionPolicy
  \/ ContinueUploadBuild
  \/ ContinueCreateBuild
  \/ ContinueDeleteBuild
  \/ ContinuePublishVersion
  \/ ContinueGenerateManifest
  \/ ContinueDeleteVersion

SpecRelease == Init /\ [][NextRelease]_vars

\* C16: the storage_key_prefix of every version row is
\* releases/{release_channel}/{version_name} of that row, in every state
\* reached by createVersion, setVersionPolicy and publishVersion (and the
\* other operations of the release system).
PrefixMatchesChannelAndName ==
  \A v \in versions :
     /\ v.storage_key_prefix[1] = v.release_channel
     /\ v.storage_key_prefix[2] = v.version_name

\* a published beta version whose policy was just changed
WitnessPrefixMatchesChannelAndName ==
  /\ lastOp.op = "setVersionPolicy"
  /\ lastOp.outcome = "updated"
  /\ \E v \in versions :
        /\ v.release_channel = "beta"
        /\ v.is_published
        /\ v.rollout_percentage = 25
        /\ v.storage_key_prefix = <<"beta", "1.0.0">>

\* C17 as stated: in every state reached by createVersion and
\* setVersionPolicy calls run one after the other (and the other operations
\* of the release system) the updatePolicy document in a version's metadata
\* holds the same channel, minSupportedVersion, rolloutPercentage,
\* rolloutStartAt and rolloutEndAt as the version's columns.  It fails for
\* the dates: the document keeps the text the command was given, the
\* timestamptz column returns its own text of that instant.
PolicyDocumentMatchesColumns ==
  \A v \in versions :
     LET document == v.metadata.updatePolicy
     IN  /\ document.channel = v.release_channel
         /\ document.minSupportedVersion = v.min_supported_version
         /\ document.rolloutPercentage = v.rollout_percentage
         /\ document.rolloutStartAt = v.rollout_start_at
         /\ document.rolloutEndAt = v.rollout_end_at

\* C17, amended: in every such state the document holds the same channel,
\* minSupportedVersion and rolloutPercentage as the columns, a rollout date
\* exactly when the column holds one, and then a text of the instant the
\* column holds: written to the column, the document's date gives the
\* column's value.
PolicyDocumentDenotesColumns ==
  \A v \in versions :
     LET document == v.metadata.updatePolicy
     IN  /\ document.channel = v.release_channel
         /\ document.minSupportedVersion = v.min_supported_version
         /\ document.rolloutPercentage = v.rollout_percentage
         /\ document.rolloutStartAt # BlankTime
         /\ document.rolloutEndAt # BlankTime
         /\ timestamptz(document.rolloutStartAt) = v.rollout_start_at
         /\ timestamptz(document.rolloutEndAt) = v.rollout_end_at

\* a policy change that set the minimum and the window of the stable
\* version with an end date as typed, so that the document and the column
\* hold different texts of it, and kept its percentage; and one that
\* changed the percentage of the beta version created with a start date as
\* typed, after which the document holds the column's text of that date
WitnessPolicyDocumentDenotesColumns ==
  /\ lastOp.op = "setVersionPolicy"
  /\ lastOp.outcome = "updated"
  /\ \E v, w \in versions :
        /\ v.release_channel = "stable"
        /\ v.min_supported_version = "1.0.0"
        /\ v.rollout_start_at = 2
        /\ v.metadata.updatePolicy.rolloutStartAt = 2
        /\ v.rollout_end_at = 3
        /\ v.metadata.updatePolicy.rolloutEndAt = Typed(3)
        /\ v.metadata.updatePolicy.rolloutPercentage = 100
        /\ w.release_channel = "beta"
        /\ w.rollout_percentage = 25
        /\ w.metadata.updatePolicy.rolloutPercentage = 25
        /\ w.rollout_start_at = 1
        /\ w.metadata.updatePolicy.rolloutStartAt = 1
        /\ w.metadata.updatePolicy.rolloutEndAt = 3

\* the beta version as createVersion leaves it: the column holds the
\* store's text of the start date, the document the text as typed
WitnessDocumentKeepsTypedDate ==
  /\ lastOp.op = "createVersion"
  /\ lastOp.outcome = "created"
  /\ \E w \in versions :
        /\ w.release_channel = "beta"
        /\ w.rollout_start_at = 1
        /\ w.metadata.updatePolicy.rolloutStartAt = Typed(1)

\* C18: createVersion inserts a row with is_published = false, and a step
\* from a state where a version is published leads either to a state where
\* the version of that name and channel is still published or to one where
\* deleteVersion has removed its row: no policy change, build upload or
\* deletion, manifest regeneration or repeated publish withdraws it.
PublishedStaysPublished ==
  [][/\ (lastOp'.op = "createVersion" /\ lastOp'.outcome = "created") =>
           /\ versions' # versions
           /\ \A v \in versions' \ versions : ~v.is_published
     /\ \A v \in versions :
           v.is_published =>
             \/ \E w \in versions' : VersionId(w) = VersionId(v) /\ w.is_published
             \/ /\ calls[1].op = "deleteVersion"
                /\ Running(1)
                /\ calls[1].args.version = v.version_name
                /\ ChannelOf(calls[1].args.o.channel) = v.release_channel
                /\ ~\E w \in versions' : VersionId(w) = VersionId(v)
     /\ lastOp'.op = "deleteVersion" =>
           \A v \in Began.versions :
              (v.is_published /\ ~\E w \in versions' : VersionId(w) = VersionId(v)) =>
                 lastOp'.outcome \in {"deleted", "warning"}]_vars

\* a version with a changed policy that is still published after the
\* deletion of its builds, the uploaded one and the store listing
WitnessPublishedStaysPublished ==
  /\ lastOp.op = "deleteBuild"
  /\ lastOp.outcome = "deleted"
  /\ \E d, e \in lastOp.deleted :
        d.platform_metadata.external /\ ~e.platform_metadata.external
  /\ \E v \in versions :
        /\ v.release_channel = "stable"
        /\ v.is_published
        /\ v.rollout_start_at = 2

\* the deletion of the builds of a published version failed after the
\* listing was deleted, or after the upload was: the version is still
\* published with the other build
WitnessPublishedAfterFailedDeletion ==
  /\ lastOp.op = "deleteBuild"
  /\ lastOp.outcome = "failed"
  /\ \E v \in versions :
        /\ v.is_published
        /\ Cardinality({b \in builds : b.version_id = VersionId(v)}) = 1

\* a store listing was added to a published version, which is still
\* published
WitnessPublishedAfterCreateBuild ==
  /\ lastOp.op = "createBuild"
  /\ lastOp.outcome = "created"
  /\ \E v \in versions :
        /\ v.is_published
        /\ lastOp.result.version_id = VersionId(v)

\* ----------------------------------------------------- the cleanup system
\* Versions 1.0.0 and 1.1.0 of the stable channel with an uploaded build,
\* publishes whose manifest uploads succeed or fail, and deletions whose
\* follow-up steps (manifest regeneration, storage folder removal) succeed
\* or fail.
CleanupNames == {"1.0.0", "1.1.0"}

ClCreateVersion ==
  /\ NoneRunning
  /\ \E v \in CleanupNames : CreateVersion(v, VersionOptions(NoName, NoNumber, NoTime, NoTime), {})

ClUploadBuild ==
  /\ NoneRunning
  /\ UploadBuild("1.0.0", "spacerun-1.0.0-arm64-macos.dmg", "c1",
                 BuildOptions(NoName, NoName, NoName), {})

\* a publish whose upload of the version manifest or of the channel
\* manifest may fail
ClPublishVersion ==
  /\ NoneRunning
  /\ \E v \in CleanupNames, fails \in {{}, {"manifestUpload"}, {"latestUpload"}} :
        PublishVersion(v, [channel |-> NoName], {}, TRUE, fails)

\* the external calls of a deletion that fail in this system: the upload
\* of either manifest and the removal of the archive (deleteBuild), the
\* listing of the version folder or of one of its sub-folders, the removal
\* of the listed files and the upload of the channel manifest (deleteVersion)
DeleteBuildFaults == {{}, {"manifestUpload"}, {"latestUpload"}, {"remove"}}

DeleteVersionFaults ==
  {{}, {"list"}, {"listFolder"}, {"removeFiles"}, {"latestUpload"},
   {"list", "latestUpload"}}

ClDeleteBuild ==
  /\ NoneRunning
  /\ \E fails \in DeleteBuildFaults :
        DeleteBuild("1.0.0", "macos", "arm64", "installer", BuildOptions(NoName, NoName, NoName),
                    TRUE, fails)

ClDeleteVersion ==
  /\ NoneRunning
  /\ \E v \in CleanupNames, fails \in DeleteVersionFaults :
        DeleteVersion(v, [channel |-> NoName, force |-> TRUE], TRUE, fails)

NextCleanup ==
  \/ ClCreateVersion
  \/ ClUploadBuild
  \/ ClPublishVersion
  \/ ClDeleteBuild
  \/ ClDeleteVersion
  \/ ContinueUploadBuild
  \/ ContinuePublishVersion
  \/ ContinueDeleteBuild
  \/ ContinueDeleteVersion

SpecCleanup == Init /\ [][NextCleanup]_vars

\* C19: a deleteBuild on a published version whose manifest regeneration
\* fails, and a deleteVersion whose storage folder removal fails or whose
\* channel manifest regeneration fails (the upload fails, or no published
\* version is left in the channel), still remove the rows they selected,
\* leave every other row alone, and report a warning.
DeletionKeptOnFollowUpFailure ==
  [][/\ (/\ lastOp'.op = "deleteBuild"
         /\ lastOp'.result \in {<<"failVersion">>, <<"failLatest">>}
         /\ \E v \in VersionRows(Began.versions, lastOp'.version, ChannelOf(lastOp'.channel)) :
               v.is_published) =>
           /\ lastOp'.outcome = "warning"
           /\ lastOp'.deleted # {}
           /\ lastOp'.deleted \subseteq Began.builds
           /\ builds' = Began.builds \ lastOp'.deleted
           /\ versions' = Began.versions
     /\ (/\ lastOp'.op = "deleteVersion"
         /\ lastOp'.result # <<>>
         /\ \/ ~lastOp'.result[1]
            \/ \E v \in VersionRows(Began.versions, lastOp'.version, ChannelOf(lastOp'.channel)) :
                  /\ v.is_published
                  /\ \/ ~lastOp'.result[2]
                     \/ ~\E w \in versions' :
                           w.release_channel = v.release_channel /\ w.is_published) =>
           /\ lastOp'.outcome = "warning"
           /\ \E v \in Began.versions :
                 /\ v.version_name = lastOp'.version
                 /\ v.release_channel = ChannelOf(lastOp'.channel)
                 /\ versions' = Began.versions \ {v}
                 /\ builds' = {b \in Began.builds : b.version_id # VersionId(v)}]_vars

\* a version was deleted with its build while the removal of its storage
\* folder failed: the rows are gone, the blob is left, a warning is reported
WitnessDeletionKeptOnFollowUpFailure ==
  /\ lastOp.op = "deleteVersion"
  /\ lastOp.outcome = "warning"
  /\ lastOp.result[1] = FALSE
  /\ lastOp.deleted # {}
  /\ ~\E v \in versions : v.version_name = lastOp.version
  /\ builds = {}
  /\ blobs # {}

\* a build of a published version was deleted and the regeneration of the
\* version manifest failed
WitnessDeleteBuildRegenerationFailed ==
  /\ lastOp.op = "deleteBuild"
  /\ lastOp.outcome = "warning"
  /\ lastOp.result = <<"failVersion">>
  /\ builds = {}
  /\ \E v \in versions : v.is_published /\ v.version_name = "1.0.0"

\* -------------------------------------------------- the validation system
\* Version 1.0.0 of the stable channel with an upload and a store listing,
\* and calls of createVersion, setVersionPolicy, uploadBuild and createBuild
\* that carry one invalid input each.
ValidationVersionOptions(channel, minSupported, rollout) ==
  [channel |-> channel, minSupported |-> minSupported, rollout |-> rollout,
   rolloutStartAt |-> NoTime, rolloutEndAt |-> NoTime, mandatory |-> FALSE]

ValidationVersionCalls ==
  {[version |-> "1.0.0", o |-> ValidationVersionOptions(NoName, NoName, NoNumber)],
   [version |-> "1.0.0", o |-> ValidationVersionOptions(NoName, "1.0.0", 50)],
   [version |-> "not-semver", o |-> ValidationVersionOptions(NoName, NoName, NoNumber)],
   [version |-> "1.0.0", o |-> ValidationVersionOptions("nightly", NoName, NoNumber)],
   [version |-> "1.0.0", o |-> ValidationVersionOptions(NoName, "not-semver", NoNumber)],
   [version |-> "1.0.0", o |-> ValidationVersionOptions(NoName, NoName, 150)],
   [version |-> "1.0.0", o |-> ValidationVersionOptions(NoName, NoName, -5)],
   [version |-> "1.1.0", o |-> ValidationVersionOptions(NoName, NoName, 150)]}

ValidationBuildOptions(channel, os, arch, type, distribution, variant) ==
  [os |-> os, arch |-> arch, type |-> type, channel |-> channel,
   distribution |-> distribution, variant |-> variant]

ValidationBuildCalls ==
  {[version |-> "1.0.0",
    o |-> ValidationBuildOptions(NoName, "macos", "arm64", "installer", NoName, NoName)],
   [version |-> "1.0.0",
    o |-> ValidationBuildOptions(NoName, "macos", "arm64", "installer", NoName, "gl")],
   [version |-> "not-semver",
    o |-> ValidationBuildOptions(NoName, "macos", "arm64", "installer", NoName, NoName)],
   [version |-> "1.0.0",
    o |-> ValidationBuildOptions("nightly", "macos", "arm64", "installer", NoName, NoName)],
   [version |-> "1.0.0",
    o |-> ValidationBuildOptions(NoName, "solaris", "arm64", "installer", NoName, NoName)],
   [version |-> "1.0.0",
    o |-> ValidationBuildOptions(NoName, "macos", "mips", "installer", NoName, NoName)],
   [version |-> "1.0.0",
    o |-> ValidationBuildOptions(NoName, "macos", "arm64", "bundle", NoName, NoName)],
   [version |-> "1.0.0",
    o |-> ValidationBuildOptions(NoName, "macos", "arm64", "installer", "sideload", NoName)],
   [version |-> "1.0.0",
    o |-> ValidationBuildOptions(NoName, "macos", "arm64", "installer", NoName, "bad variant!")]}

VdCreateVersion ==
  /\ NoneRunning
  /\ \E c \in ValidationVersionCalls : CreateVersion(c.version, c.o, {})

VdSetVersionPolicy ==
  /\ NoneRunning
  /\ \E c \in ValidationVersionCalls : SetVersionPolicy(c.version, c.o, {})

VdUploadBuild ==
  /\ NoneRunning
  /\ \E c \in ValidationBuildCalls, content \in {"c1", "c2"} :
        UploadBuild(c.version, "spacerun-1.0.0-arm64-macos.dmg", content, c.o, {})

VdCreateBuild ==
  /\ NoneRunning
  /\ \E c \in ValidationBuildCalls :
        CreateBuild(c.version, c.o.os, c.o.arch, c.o.type, <<"https:", "", "store", "app">>, c.o, {})

NextValidation ==
  \/ VdCreateVersion
  \/ VdSetVersionPolicy
  \/ VdUploadBuild
  \/ VdCreateBuild
  \/ ContinueSetVersionPolicy
  \/ ContinueUploadBuild
  \/ ContinueCreateBuild

SpecValidation == Init /\ [][NextValidation]_vars

\* the inputs the claim calls invalid, stated on the call
InvalidVersionCall(c) ==
  \/ c.version = "not-semver"
  \/ c.o.channel \notin {NoName, "stable", "beta", "alpha"}
  \/ c.o.minSupported = "not-semver"
  \/ (c.o.rollout # NoNumber /\ (c.o.rollout < 0 \/ c.o.rollout > 100))

InvalidBuildCall(c) ==
  \/ c.version = "not-semver"
  \/ c.o.channel \notin {NoName, "stable", "beta", "alpha"}
  \/ c.o.os \notin {"macos", "windows", "linux", "ios", "android"}
  \/ c.o.arch \notin {"arm64", "x64", "x86"}
  \/ c.o.type \notin {"patch", "installer"}
  \/ c.o.distribution \notin {NoName, "direct", "store"}
  \/ c.o.variant = "bad variant!"

\* C20: a step that is a createVersion, setVersionPolicy, uploadBuild or
\* createBuild call with an invalid semantic version, an unsupported channel,
\* os, arch, type or distribution, an out-of-range rollout percentage or a
\* malformed variant label reports a failure and leaves the version rows,
\* the build rows and the blobs as they were.
InvalidInputChangesNothing ==
  [][/\ \A c \in ValidationVersionCalls :
           (/\ InvalidVersionCall(c)
            /\ (CreateVersion(c.version, c.o, {}) \/ SetVersionPolicy(c.version, c.o, {}))) =>
             /\ lastOp'.outcome \in {"invalid", "notfound"}
             /\ UNCHANGED <<versions, builds, blobs>>
     /\ \A c \in ValidationBuildCalls :
           (/\ InvalidBuildCall(c)
            /\ \/ \E content \in {"c1", "c2"} :
                     UploadBuild(c.version, "spacerun-1.0.0-arm64-macos.dmg", content, c.o, {})
               \/ CreateBuild(c.version, c.o.os, c.o.arch, c.o.type, <<"https:", "", "store", "app">>, c.o, {})) =>
             /\ lastOp'.outcome \in {"invalid", "notfound"}
             /\ UNCHANGED <<versions, builds, blobs>>]_vars

\* a rejected createVersion in a store that holds a version with a changed
\* policy, two builds and a blob
WitnessInvalidInputChangesNothing ==
  /\ lastOp.op = "createVersion"
  /\ lastOp.outcome = "invalid"
  /\ \E v \in versions : v.rollout_percentage = 50
  /\ Cardinality(builds) >= 2
  /\ blobs # {}

\* ------------------------------------------------ the metadata writer system
\* buildVersionMetadataWithPolicy applied to documents that are no object,
\* that are empty, that carry other keys, and whose updatePolicy is usable,
\* unusable or no object.
MetadataPolicies ==
  {DefaultPolicy,
   [channel |-> "beta", minSupportedVersion |-> "1.0.0", rolloutPercentage |-> 50,
    rolloutStartAt |-> 1, rolloutEndAt |-> 3]}

MetadataDocuments ==
  {[scalar |-> "null"], [scalar |-> "undefined"], [scalar |-> "text"], [scalar |-> "7"]}
    \cup {[k \in {} |-> NoName]}
    \cup {[notes |-> "n"]}
    \cup {[updatePolicy |-> [scalar |-> "text"], notes |-> "n"]}
    \cup {[updatePolicy |-> p] : p \in PolicyDocuments}
    \cup {[updatePolicy |-> p, notes |-> "n", build |-> 7] : p \in PolicyDocuments}

\* a document and a policy await the writer
InitMetadata ==
  /\ versions = {}
  /\ builds = {}
  /\ blobs = {}
  /\ manifests = {}
  /\ clock = 0
  /\ calls = [p \in Procs |-> NoCall]
  /\ \E existing \in MetadataDocuments, policy \in MetadataPolicies :
        lastOp = [NoOp EXCEPT !.input = [existing |-> existing, policy |-> policy]]

WriteMetadata ==
  /\ lastOp.op = "none"
  /\ lastOp' = [lastOp EXCEPT
                  !.op = "buildVersionMetadataWithPolicy",
                  !.result = buildVersionMetadataWithPolicy(lastOp.input.existing,
                                                            lastOp.input.policy)]
  /\ UNCHANGED <<versions, builds, blobs, manifests, clock, calls>>

NextMetadata == WriteMetadata

SpecMetadata == InitMetadata /\ [][NextMetadata]_vars

\* C21: the document buildVersionMetadataWithPolicy returns has the given
\* policy under updatePolicy and, for an existing document that is an
\* object, every other key of it with its value and no further key; for an
\* existing value that is no object it has the key updatePolicy alone.
MetadataKeepsOtherKeys ==
  lastOp.op = "buildVersionMetadataWithPolicy" =>
    LET existing == lastOp.input.existing
        kept == IF "scalar" \in DOMAIN existing THEN {}
                ELSE DOMAIN existing \ {"updatePolicy"}
    IN  /\ lastOp.result.updatePolicy = lastOp.input.policy
        /\ DOMAIN lastOp.result = kept \cup {"updatePolicy"}
        /\ \A k \in kept : lastOp.result[k] = existing[k]

\* a document with two other keys and another policy got the new policy and
\* kept both keys
WitnessMetadataKeepsOtherKeys ==
  /\ lastOp.op = "buildVersionMetadataWithPolicy"
  /\ DOMAIN lastOp.input.existing = {"updatePolicy", "notes", "build"}
  /\ lastOp.input.existing.updatePolicy.channel = "alpha"
  /\ lastOp.input.policy.channel = "beta"
  /\ lastOp.result.updatePolicy.rolloutPercentage = 50
  /\ lastOp.result.notes = "n"
  /\ lastOp.result.build = 7

\* a value that is no object gave a document with the policy alone
WitnessMetadataFromScalar ==
  /\ lastOp.op = "buildVersionMetadataWithPolicy"
  /\ lastOp.input.existing = [scalar |-> "null"]
  /\ DOMAIN lastOp.result = {"updatePolicy"}
  /\ lastOp.result.updatePolicy = lastOp.input.policy

\* ---------------------------------------------------- the manifest system
\* Version 1.0.0 of the stable channel with uploads for two slots, store
\* listings for a slot of its own and for a slot an upload fills, and
\* manifest generation.
ManifestFiles == {"spacerun-1.0.0-arm64-macos.dmg", "spacerun-1.0.0-x64-windows.zip"}

ManifestListings == {"arm64", "x64"}

MfCreateVersion ==
  /\ NoneRunning
  /\ CreateVersion("1.0.0", VersionOptions(NoName, NoNumber, NoTime, NoTime), {})

MfUploadBuild ==
  /\ NoneRunning
  /\ \E f \in ManifestFiles : UploadBuild("1.0.0", f, "c1", BuildOptions(NoName, NoName, NoName), {})

MfCreateBuild ==
  /\ NoneRunning
  /\ \E arch \in ManifestListings :
        CreateBuild("1.0.0", "macos", arch, "installer", <<"https:", "", "store", "app">>,
                    BuildOptions(NoName, NoName, NoName), {})

\* a generation whose upload may fail
MfGenerateManifest ==
  /\ NoneRunning
  /\ \E fails \in {{}, {"manifestUpload"}} :
        GenerateManifest("1.0.0", [channel |-> NoName], fails)

NextManifest ==
  \/ MfCreateVersion
  \/ MfUploadBuild
  \/ MfCreateBuild
  \/ MfGenerateManifest
  \/ ContinueUploadBuild
  \/ ContinueCreateBuild
  \/ ContinueGenerateManifest

SpecManifest == Init /\ [][NextManifest]_vars

\* the (os, arch, type) leaves of a platforms tree
TreeSlots(platforms) ==
  UNION {{<<platforms[i].os, key[1], key[2]>> : key \in DOMAIN platforms[i].builds} :
           i \in 1..Len(platforms)}

\* C22: the version manifest generated for a version that owns exactly one
\* build in each of its (os, arch, type) slots has a platforms tree with one
\* element per os and exactly the leaves of those slots, each leaf is the
\* build of its slot, and no leaf carries a sources list.
OneBuildPerSlotGivesPlainTree ==
  (lastOp.op = "generateManifest" /\ lastOp.outcome = "generated") =>
    \A v \in VersionRows(versions, lastOp.version, ChannelOf(lastOp.channel)) :
       LET owned == {b \in builds : b.version_id = VersionId(v)}
           platforms ==
             StoredManifest(manifests, VersionManifestPath(v.storage_key_prefix)).platforms
       IN  (\A b, c \in owned : slotOf(b) = slotOf(c) => b = c) =>
             /\ TreeSlots(platforms) = {<<b.os, b.arch, b.type>> : b \in owned}
             /\ \A i, j \in 1..Len(platforms) :
                   platforms[i].os = platforms[j].os => i = j
             /\ \A i \in 1..Len(platforms) :
                   \A key \in DOMAIN platforms[i].builds :
                      /\ platforms[i].builds[key].sources = <<>>
                      /\ \E b \in owned :
                            /\ <<b.os, b.arch, b.type>> = <<platforms[i].os, key[1], key[2]>>
                            /\ platforms[i].builds[key].primary.url = b.url
                            /\ platforms[i].builds[key].primary.packageName = b.package_name

\* a manifest generated for three builds in three slots of two platforms
WitnessOneBuildPerSlotGivesPlainTree ==
  /\ lastOp.op = "generateManifest"
  /\ lastOp.outcome = "generated"
  /\ Cardinality(builds) = 3
  /\ Cardinality({slotOf(b) : b \in builds}) = 3
  /\ \E v \in versions :
        LET platforms ==
              StoredManifest(manifests, VersionManifestPath(v.storage_key_prefix)).platforms
        IN  /\ Len(platforms) = 2
            /\ Cardinality(TreeSlots(platforms)) = 3

\* ------------------------------------------------ the interleaving system
\* After versions 1.0.0 and 1.1.0 were created and 1.0.0 was given a build,
\* one command at a time, two commands run as separate processes against
\* the same store: process 2 a non-forced deleteVersion 1.0.0 or deleteBuild
\* 1.0.0 macos/arm64/installer (both with --yes), process 3 publishVersion
\* 1.1.0 --yes whose operator takes the build of 1.0.0 as the fallback of
\* the slot when it is offered.  Every round trip of the two is a step of
\* its own; what a call has read stays with it in calls.
RaceSource == "1.0.0"

RaceTarget == "1.1.0"

RaceSlot == [os |-> "macos", arch |-> "arm64", type |-> "installer"]

Deleter == 2

Publisher == 3

NotStarted == calls[2] = NoCall /\ calls[3] = NoCall

RcCreateVersion ==
  /\ NotStarted
  /\ NoneRunning
  /\ \E v \in {RaceSource, RaceTarget} :
        CreateVersion(v, VersionOptions(NoName, NoNumber, NoTime, NoTime), {})

RcUploadBuild ==
  /\ NotStarted
  /\ NoneRunning
  /\ UploadBuild(RaceSource, "spacerun-1.0.0-arm64-macos.dmg", "c1",
                 BuildOptions(NoName, NoName, NoName), {})

\* the deletion is started
RcDeleteVersion ==
  /\ calls[Deleter] = NoCall
  /\ ~Running(1)
  /\ Start(deleteVersionStep, Deleter,
           deleteVersionCall(RaceSource, [channel |-> NoName, force |-> FALSE],
                                      TRUE, {}))

RcDeleteBuild ==
  /\ calls[Deleter] = NoCall
  /\ ~Running(1)
  /\ Start(deleteBuildStep, Deleter,
           deleteBuildCall(RaceSource, RaceSlot.os, RaceSlot.arch, RaceSlot.type,
                           BuildOptions(NoName, NoName, NoName), TRUE, {}))

\* the publish is started
RcPublishVersion ==
  /\ calls[Publisher] = NoCall
  /\ ~Running(1)
  /\ \E chosen \in {{}} \cup {{b} : b \in builds} :
        Start(publishVersionStep, Publisher,
              publishVersionCall(RaceTarget, [channel |-> NoName], chosen,
                                            TRUE, {}))

NextRace ==
  \/ RcCreateVersion
  \/ RcUploadBuild
  \/ RcDeleteVersion
  \/ RcDeleteBuild
  \/ RcPublishVersion
  \/ ContinueUploadBuild
  \/ ContinueDeleteVersion
  \/ ContinueDeleteBuild
  \/ ContinuePublishVersion

SpecRace == Init /\ [][NextRace]_vars

\* C23: when the non-forced deletion and the publish have both ended,
\* whatever the order of their store reads and writes, every build that
\* names 1.0.0 as its fallback still has its source: a version 1.0.0 that
\* owns a build of the same slot.
NoDanglingFallbackAfterRace ==
  (/\ calls[Deleter].op \in {"deleteVersion", "deleteBuild"}
   /\ calls[Deleter].pc = "done"
   /\ calls[Publisher].op = "publishVersion"
   /\ calls[Publisher].pc = "done") =>
     \A b \in builds :
        b.platform_metadata.fallback_from = RaceSource =>
          \E v \in versions :
             /\ v.version_name = RaceSource
             /\ \E src \in builds : src.version_id = VersionId(v) /\ slotOf(src) = slotOf(b)

\* --------------------------------------------------- the concurrent system
\* Two terminals (processes 2 and 3) run their commands against the same
\* store, round trip by round trip in any order, after versions 1.0.0 and
\* 1.1.0 were created, given a build and published one command at a time.
PolicyWindow == VersionOptions(NoName, NoNumber, 2, NoTime)

PolicyRollout(rollout) == VersionOptions(NoName, rollout, NoTime, NoTime)

CcCreateVersion ==
  /\ NotStarted
  /\ NoneRunning
  /\ \E v \in {"1.0.0", "1.1.0"} :
        CreateVersion(v, VersionOptions(NoName, NoNumber, NoTime, NoTime), {})

CcCreateBuild ==
  /\ NotStarted
  /\ NoneRunning
  /\ CreateBuild("1.1.0", "macos", "arm64", "installer", <<"https:", "", "store", "app">>,
                 BuildOptions(NoName, NoName, NoName), {})

CcUploadBuild ==
  /\ NotStarted
  /\ NoneRunning
  /\ UploadBuild("1.0.0", "spacerun-1.0.0-arm64-macos.dmg", "c1",
                 BuildOptions(NoName, NoName, NoName), {})

CcPublishVersion ==
  /\ NotStarted
  /\ NoneRunning
  /\ PublishVersion("1.1.0", [channel |-> NoName], {}, TRUE, {})

\* the command of the first terminal, process 2
CcStartFirst ==
  /\ calls[2] = NoCall
  /\ ~Running(1)
  /\ \/ Start(setVersionPolicyStep, 2, setVersionPolicyCall("1.0.0", PolicyWindow, {}))
     \/ Start(uploadBuildStep, 2,
              uploadBuildCall("1.0.0", "spacerun-1.0.0-arm64-macos.dmg", "c2",
                              BuildOptions(NoName, NoName, NoName), {}))
     \/ Start(createBuildStep, 2,
              createBuildCall("1.0.0", "macos", "arm64", "installer", <<"https:", "", "store", "app">>,
                              BuildOptions(NoName, NoName, NoName), {}))
     \/ Start(generateManifestStep, 2, generateManifestCall("1.0.0", [channel |-> NoName], {}))
     \/ Start(checkForUpdateStep, 2,
              checkForUpdateCall("1.0.0", "macos", "arm64",
                                 [channel |-> NoName, deviceId |-> <<49>>,
                                  allowPrerelease |-> FALSE], 1, {}))
     \/ Start(publishVersionStep, 2,
              publishVersionCall("1.0.0", [channel |-> NoName], {}, TRUE, {}))

\* the command of the second terminal, process 3
CcStartSecond ==
  /\ calls[3] = NoCall
  /\ ~Running(1)
  /\ \/ \E v \in {"1.0.0", "1.1.0"}, rollout \in {0, 10} :
           Start(setVersionPolicyStep, 3, setVersionPolicyCall(v, PolicyRollout(rollout), {}))
     \/ Start(deleteVersionStep, 3,
              deleteVersionCall("1.0.0", [channel |-> NoName, force |-> TRUE], TRUE, {}))
     \/ Start(publishVersionStep, 3,
              publishVersionCall("1.1.0", [channel |-> NoName], {}, TRUE, {}))

\* the second terminal lists a build of 1.1.0 after its policy command
CcStartThird ==
  /\ calls[3].op = "setVersionPolicy"
  /\ calls[3].report.version = "1.1.0"
  /\ Start(createBuildStep, 3,
           createBuildCall("1.1.0", "macos", "arm64", "installer", <<"https:", "", "store", "app">>,
                           BuildOptions(NoName, NoName, NoName), {}))

NextConcurrent ==
  \/ CcCreateVersion
  \/ CcCreateBuild
  \/ CcUploadBuild
  \/ CcPublishVersion
  \/ CcStartFirst
  \/ CcStartSecond
  \/ CcStartThird
  \/ ContinueSetVersionPolicy
  \/ ContinueUploadBuild
  \/ ContinueCreateBuild
  \/ ContinueGenerateManifest
  \/ ContinueCheckForUpdate
  \/ ContinuePublishVersion
  \/ ContinueDeleteVersion

SpecConcurrent == Init /\ [][NextConcurrent]_vars

BothEnded(first, second) ==
  /\ calls[2].op = first /\ calls[2].pc = "done"
  /\ calls[3].op = second /\ calls[3].pc = "done"

\* outcomes of interleavings that no one-at-a-time order of the two commands
\* has; each is a reachable state of the concurrent system.
\* Two policy updates of 1.0.0 both succeed and the rollout of the second is
\* lost: the first wrote back the percentage it had read.
LostPolicyUpdate ==
  /\ BothEnded("setVersionPolicy", "setVersionPolicy")
  /\ calls[2].report.outcome = "updated"
  /\ calls[3].report.outcome = "updated"
  /\ calls[3].report.version = "1.0.0"
  /\ \E v \in versions :
        /\ v.version_name = "1.0.0"
        /\ v.rollout_percentage = 100
        /\ v.rollout_start_at = 2

\* Two policy updates of 1.0.0 both succeed and leave the document without
\* the start date the column holds: the second read the row before the
\* first set the date, its update does not send the key of the date it does
\* not know, and its document replaces the first one's.
PolicyDocumentDrift ==
  /\ BothEnded("setVersionPolicy", "setVersionPolicy")
  /\ calls[2].report.outcome = "updated"
  /\ calls[3].report.outcome = "updated"
  /\ calls[3].report.version = "1.0.0"
  /\ \E v \in versions :
        /\ v.version_name = "1.0.0"
        /\ v.rollout_start_at = 2
        /\ v.metadata.updatePolicy.rolloutStartAt = NoTime

\* An upload fails on the foreign key of builds after its blob was stored:
\* the version was deleted between the storage upload and the upsert.
UploadIntoDeletedVersion ==
  /\ BothEnded("uploadBuild", "deleteVersion")
  /\ calls[2].report.outcome = "failed"
  /\ ~\E v \in versions : v.version_name = "1.0.0"
  /\ \E b \in blobs : b.content = "c2"

\* A store listing fails on the foreign key of builds: the version was
\* deleted between the lookup and the upsert.
ListingIntoDeletedVersion ==
  /\ BothEnded("createBuild", "deleteVersion")
  /\ calls[2].report.outcome = "failed"
  /\ calls[3].report.outcome \in {"deleted", "warning"}

\* A manifest is generated and stored for a version that is deleted by then.
ManifestOfDeletedVersion ==
  /\ BothEnded("generateManifest", "deleteVersion")
  /\ calls[2].report.outcome = "generated"
  /\ ~\E v \in versions : v.version_name = "1.0.0"
  /\ \E m \in manifests : m.path = VersionManifestPath(storageKeyPrefix("stable", "1.0.0"))

\* An update to 1.1.0 is reported although 1.1.0 had no build before its
\* rollout was set to 0: the update check read the versions before the policy
\* command and the builds after the listing that followed it.
UpdateFromEarlierPolicy ==
  /\ BothEnded("checkForUpdate", "createBuild")
  /\ calls[2].report.outcome = "update"
  /\ calls[2].report.target = "1.1.0"
  /\ calls[3].report.outcome = "created"
  /\ \E v \in versions :
        /\ v.version_name = "1.1.0"
        /\ v.rollout_percentage = 0
        /\ \A b \in builds :
              b.version_id = VersionId(v) => b.created_at = calls[3].report.result.created_at

\* Two publishes end with a channel manifest that names 1.0.0 while 1.1.0
\* is published: the first read the channel's versions before the second
\* published and uploaded after it.
ChannelManifestOfEarlierRead ==
  /\ BothEnded("publishVersion", "publishVersion")
  /\ calls[2].report.outcome = "published"
  /\ calls[3].report.outcome = "published"
  /\ \A v \in versions : v.is_published
  /\ StoredManifest(manifests, ChannelManifestPath("stable")).version = "1.0.0"

\* ------------------------------------------------- the row order system
\* buildPlatformsArray applied to the builds of one slot as the store
\* returns them for .order('created_at', { ascending: false }): newest
\* first, rows of one timestamp in whatever order the store picks.  Two
\* variants of a slot uploaded at the same instant are such rows.
OrderCandidate(distribution, createdAt, label) ==
  [SourceCandidate("installer", distribution, createdAt) EXCEPT
     !.packageName = label, !.url = <<label>>]

OrderCandidates ==
  {OrderCandidate(distribution, createdAt, label) :
     distribution \in {"store", "direct"}, createdAt \in 1..MaxStamp,
     label \in {"default", "gl"}}

\* a result of the query: no row twice, newest first
IsQueryResult(rows) ==
  /\ \A i, j \in 1..Len(rows) : rows[i] = rows[j] => i = j
  /\ \A i, j \in 1..Len(rows) : i < j => rows[i].createdAt >= rows[j].createdAt

OrderInputs ==
  {rows \in UNION {[1..n -> OrderCandidates] : n \in 1..MaxSources} : IsQueryResult(rows)}

InitOrder ==
  /\ versions = {}
  /\ builds = {}
  /\ blobs = {}
  /\ manifests = {}
  /\ clock = 0
  /\ calls = [p \in Procs |-> NoCall]
  /\ \E input \in OrderInputs : lastOp = [NoOp EXCEPT !.input = input]

BuildFromRows ==
  /\ lastOp.op = "none"
  /\ lastOp' = [lastOp EXCEPT !.op = "buildPlatformsArray",
                              !.platforms = buildPlatformsArray(lastOp.input)]
  /\ UNCHANGED <<versions, builds, blobs, manifests, clock, calls>>

NextOrder == BuildFromRows

SpecOrder == InitOrder /\ [][NextOrder]_vars

\* the other orders in which the store may return the same rows
SameRows(rows) ==
  {other \in [1..Len(rows) -> {rows[i] : i \in 1..Len(rows)}] : IsQueryResult(other)}

\* C24: the platforms built from the rows of a version are the same for
\* every order in which the store may return those rows, also when two
\* builds of the slot have the same distribution and creation timestamp.
PlatformsIndependentOfRowOrder ==
  lastOp.op = "buildPlatformsArray" =>
    \A other \in SameRows(lastOp.input) : buildPlatformsArray(other) = lastOp.platforms

\* ------------------------------------------- the sources list of a slot
\* the positions of the input that hold candidates of the group of c
GroupMembers(input, c) ==
  {j \in 1..Len(input) :
     input[j].os = c.os /\ input[j].arch = c.arch /\ input[j].type = c.type}

\* source and candidate describe the same file
SameSource(source, candidate) ==
  /\ source.url = candidate.url
  /\ source.distribution = candidate.distribution
  /\ source.releaseDate = candidate.createdAt
  /\ source.type = candidate.type

\* store before direct, then newest first
SourcesInOrder(sources) ==
  \A i, j \in 1..Len(sources) :
     i < j =>
       \/ sources[i].distribution = "store" /\ sources[j].distribution = "direct"
       \/ /\ sources[i].distribution = sources[j].distribution
          /\ sources[i].releaseDate >= sources[j].releaseDate

\* C25 as stated: a group with more than one candidate has a sources list
\* that holds the candidates other than the primary, in sorted order.
SourcesAreTheRemainder ==
  lastOp.op = "buildPlatformsArray" =>
    \A i \in 1..Len(lastOp.input) :
       LET c == lastOp.input[i]
           members == GroupMembers(lastOp.input, c)
           found == GroupEntry(lastOp.platforms, c)
       IN  Cardinality(members) > 1 =>
             /\ Len(found.sources) = Cardinality(members) - 1
             /\ SourcesInOrder(found.sources)

\* C25: a group with more than one candidate has a sources list that holds
\* every candidate of the group, the primary included and first, in sorted
\* order (store before direct, then newest first).
SourcesAreAllCandidates ==
  lastOp.op = "buildPlatformsArray" =>
    \A i \in 1..Len(lastOp.input) :
       LET c == lastOp.input[i]
           members == GroupMembers(lastOp.input, c)
           found == GroupEntry(lastOp.platforms, c)
       IN  Cardinality(members) > 1 =>
             /\ Len(found.sources) = Cardinality(members)
             /\ found.sources[1] = found.primary
             /\ SourcesInOrder(found.sources)
             /\ \A j \in members :
                   Cardinality({k \in 1..Len(found.sources) :
                                  SameSource(found.sources[k], lastOp.input[j])})
                     = Cardinality({k \in members :
                                      SameSource(platformSource(lastOp.input[k]), lastOp.input[j])})

\* a group of a direct candidate listed before an older store candidate,
\* with both in the sources list
WitnessSourcesAreAllCandidates ==
  /\ lastOp.op = "buildPlatformsArray"
  /\ Len(lastOp.input) = 2
  /\ lastOp.input[1].type = lastOp.input[2].type
  /\ lastOp.input[1].distribution = "direct"
  /\ lastOp.input[2].distribution = "store"
  /\ lastOp.input[1].createdAt > lastOp.input[2].createdAt
  /\ Len(GroupEntry(lastOp.platforms, lastOp.input[1]).sources) = 2
  /\ GroupEntry(lastOp.platforms, lastOp.input[1]).sources[2].distribution = "direct"

\* ------------------------------- the minimum version from the document
\* the column holds no usable minimum version
ColumnMinimumUnusable(source) ==
  source.min_supported_version = NoName \/ Parse(source.min_supported_version) = <<>>

\* C26 as stated: with no usable column the resolved minimum version is the
\* string of the document as it is, unset only when the document has none.
DocumentMinimumTakenAsIs ==
  (lastOp.op = "getUpdatePolicyFromVersion" /\ ColumnMinimumUnusable(lastOp.input)) =>
    lastOp.result.policy.minSupportedVersion =
      lastOp.input.metadata.updatePolicy.minSupportedVersion

\* C26: with no usable column the resolved minimum version is the string of
\* the document when that string is a valid semantic version, and unset
\* when the document has none or has one that is not a valid version.
DocumentMinimumTakenWhenValid ==
  (lastOp.op = "getUpdatePolicyFromVersion" /\ ColumnMinimumUnusable(lastOp.input)) =>
    LET document == lastOp.input.metadata.updatePolicy.minSupportedVersion
        resolved == lastOp.result.policy.minSupportedVersion
    IN  /\ Parse(document) # <<>> => resolved = document
        /\ Parse(document) = <<>> => resolved = NoName

\* neither the column nor the document holds a valid version and the
\* resolved policy has no minimum version
WitnessDocumentMinimumTakenWhenValid ==
  /\ lastOp.op = "getUpdatePolicyFromVersion"
  /\ lastOp.input.min_supported_version = "not-semver"
  /\ lastOp.input.metadata.updatePolicy.minSupportedVersion = "not-semver"
  /\ lastOp.result.policy.minSupportedVersion = NoName

\* the column is absent and the document's valid version is the result
WitnessDocumentMinimumUsed ==
  /\ lastOp.op = "getUpdatePolicyFromVersion"
  /\ lastOp.input.min_supported_version = NoName
  /\ lastOp.input.metadata.updatePolicy.minSupportedVersion = "1.1.0"
  /\ lastOp.result.policy.minSupportedVersion = "1.1.0"

\* --------------------------------------------- the build selection system
\* Versions 1.1.0 and 1.2.0 of the stable channel with patch and installer
\* builds for macos/arm64, listed in the store or hosted directly, in two
\* variants, an uploaded windows patch, publishes of 1.1.0 (1.2.0 stays a
\* draft) and update checks.
SelectNames == {"1.1.0", "1.2.0"}

\* <<version, type, distribution, variant>> of the listings
SelectListings ==
  {<<"1.1.0", "patch", NoName, NoName>>, <<"1.1.0", "patch", NoName, "gl">>,
   <<"1.1.0", "patch", "direct", NoName>>, <<"1.1.0", "installer", NoName, NoName>>,
   <<"1.2.0", "installer", NoName, NoName>>}

SelectCalls ==
  {UpdateCall("1.0.0", NoName, <<49>>, 2, FALSE),
   UpdateCall("1.1.0", NoName, <<49>>, 2, FALSE)}

SlCreateVersion ==
  /\ NoneRunning
  /\ \E v \in SelectNames : CreateVersion(v, VersionOptions(NoName, NoNumber, NoTime, NoTime), {})

SlCreateBuild ==
  /\ NoneRunning
  /\ \E l \in SelectListings :
        CreateBuild(l[1], "macos", "arm64", l[2], <<"https:", "", "store", "app">>,
                    BuildOptions(NoName, l[3], l[4]), {})

SlUploadBuild ==
  /\ NoneRunning
  /\ UploadBuild("1.1.0", "spacerun-1.0.0-x64-windows.zip", "c1",
                 BuildOptions(NoName, NoName, NoName), {})

SlPublishVersion ==
  /\ NoneRunning
  /\ PublishVersion("1.1.0", [channel |-> NoName], {}, TRUE, {})

SlCheckForUpdate ==
  /\ NoneRunning
  /\ \E call \in SelectCalls :
        CheckForUpdate(call.installed, "macos", "arm64", call.options, call.now, {})

NextSelect ==
  \/ SlCreateVersion
  \/ SlCreateBuild
  \/ SlUploadBuild
  \/ SlPublishVersion
  \/ SlCheckForUpdate
  \/ ContinueCreateBuild
  \/ ContinueUploadBuild
  \/ ContinuePublishVersion
  \/ ContinueCheckForUpdate

SpecSelect == Init /\ [][NextSelect]_vars

\* the build rows of the reported target that fit the requested platform
TargetCandidates ==
  {b \in builds :
     /\ OwnedBy(b, lastOp.target, ChannelOf(lastOp.channel))
     /\ b.os = lastOp.os /\ b.arch = lastOp.arch
     /\ b.type \in {"patch", "installer"}}

\* row c comes before row b: patch before installer, then store before
\* direct, then the newer one
ComesBefore(c, b) ==
  \/ c.type = "patch" /\ b.type = "installer"
  \/ /\ c.type = b.type
     /\ c.distribution = "store" /\ b.distribution = "direct"
  \/ /\ c.type = b.type
     /\ c.distribution = b.distribution
     /\ c.created_at > b.created_at

\* C27: the build reported with an update is a build row of the reported
\* version for the requested os and arch, and no other such row of that
\* version comes before it in the order patch before installer, store
\* before direct, newest first.
SelectedBuildIsPreferred ==
  (lastOp.op = "checkForUpdate" /\ lastOp.outcome = "update") =>
    /\ Len(lastOp.result) = 1
    /\ \E b \in TargetCandidates :
          /\ lastOp.result[1].url = b.url
          /\ lastOp.result[1].packageName = b.package_name
          /\ lastOp.result[1].type = b.type
          /\ lastOp.result[1].distribution = b.distribution
          /\ lastOp.result[1].createdAt = b.created_at
          /\ \A c \in TargetCandidates : ~ComesBefore(c, b)

\* an update to a version that owns an installer listed in the store and an
\* older and a newer patch listed in the store: the newer patch is reported
WitnessSelectedBuildIsPreferred ==
  /\ lastOp.op = "checkForUpdate"
  /\ lastOp.outcome = "update"
  /\ Len(lastOp.result) = 1
  /\ lastOp.result[1].type = "patch"
  /\ \E b, c \in TargetCandidates :
        /\ b.type = "installer" /\ b.distribution = "store"
        /\ c.type = "patch" /\ c.distribution = "store"
        /\ c.created_at < lastOp.result[1].createdAt
        /\ b.created_at > c.created_at

\* an update whose reported build belongs to the target while the other
\* version owns a newer build for the same platform
WitnessSelectedOwnedByTarget ==
  /\ lastOp.op = "checkForUpdate"
  /\ lastOp.outcome = "update"
  /\ Len(lastOp.result) = 1
  /\ \E b \in builds :
        /\ ~OwnedBy(b, lastOp.target, ChannelOf(lastOp.channel))
        /\ b.os = lastOp.os /\ b.arch = lastOp.arch
        /\ b.created_at > lastOp.result[1].createdAt

\* an update whose reported build is a direct patch although the version
\* owns a newer installer listed in the store
WitnessPatchBeforeStore ==
  /\ lastOp.op = "checkForUpdate"
  /\ lastOp.outcome = "update"
  /\ Len(lastOp.result) = 1
  /\ lastOp.result[1].type = "patch"
  /\ lastOp.result[1].distribution = "direct"
  /\ \E b \in TargetCandidates :
        /\ b.type = "installer" /\ b.distribution = "store"
        /\ b.created_at > lastOp.result[1].createdAt

\* ------------------------------------------ what an update check reads
\* the report of a check as the version and build rows alone determine it
ReportFollowsRows ==
  (lastOp.op = "checkForUpdate" /\ lastOp.outcome # "invalid") =>
    LET published == {v \in versions :
                        v.is_published /\ v.release_channel = ChannelOf(lastOp.channel)}
        passing == {v \in published : PassesGates(v, lastOp)}
    IN  /\ lastOp.outcome = IF published = {} THEN "noversions"
                            ELSE IF passing = {} THEN "none" ELSE "update"
        /\ passing = {} => lastOp.target = NoName /\ lastOp.result = <<>>
        /\ passing # {} =>
              LET row == SemverMax(passing)
              IN  /\ lastOp.target = row.version_name
                  /\ lastOp.mandatory <=>
                       \/ row.is_mandatory
                       \/ /\ Parse(row.min_supported_version) # <<>>
                          /\ semverCompare(row.min_supported_version, lastOp.installed) = 1
                  /\ Len(lastOp.result) = 1
                  /\ \E b \in TargetCandidates :
                        /\ lastOp.result[1].url = b.url
                        /\ lastOp.result[1].createdAt = b.created_at
                        /\ \A c \in TargetCandidates : ~ComesBefore(c, b)

\* C28: a checkForUpdate call changes no version row, build row, blob or
\* manifest, and its report is the one the version and build rows of the
\* store determine, whatever manifests are stored (none, a current one or
\* a stale one).
CheckReadsRowsOnly ==
  [][lastOp'.op = "checkForUpdate" =>
       /\ store' = Rows(Began)
       /\ ReportFollowsRows']_vars

\* an update was reported from a store that holds a blob and whose stored
\* manifest of the target is stale: it lacks a build the version now owns
WitnessCheckReadsRowsOnly ==
  /\ lastOp.op = "checkForUpdate"
  /\ lastOp.outcome = "update"
  /\ blobs # {}
  /\ \E v \in versions :
        /\ v.version_name = lastOp.target
        /\ StoredManifest(manifests, VersionManifestPath(v.storage_key_prefix)).exists
        /\ StoredManifest(manifests, VersionManifestPath(v.storage_key_prefix))
             # buildVersionManifest(versions, builds, v.version_name, v.release_channel)

\* the same rows as in the stale case with the manifest current: an update
\* was reported and every stored version manifest matches the rows
WitnessCheckWithCurrentManifest ==
  /\ lastOp.op = "checkForUpdate"
  /\ lastOp.outcome = "update"
  /\ Cardinality(builds) > 1
  /\ \A v \in versions :
        v.is_published =>
          StoredManifest(manifests, VersionManifestPath(v.storage_key_prefix))
            = buildVersionManifest(versions, builds, v.version_name, v.release_channel)

\* ------------------------------------------------ the borrowing system
\* Versions 1.0.0, 1.1.0 and 1.2.0 of the stable channel, created in this
\* order, with uploaded macos installers and listings, publishes (confirmed
\* or canceled) that may assign a fallback, also one whose source is itself
\* a fallback copy, and deletions of builds and versions without --force.
BorrowNames == {"1.0.0", "1.1.0", "1.2.0"}

BorrowUploads == {<<"1.0.0", NoName>>}

\* the version that gets listings, and the versions that are published
BorrowListed == {"1.1.0"}

BorrowPublished == {"1.1.0", "1.2.0"}

\* number of rows inserted in one behaviour of the borrowing system: three
\* versions, a build and two fallback copies, or fewer versions and more
\* builds
BorrowInserts == 6

\* the empty store; its clock leaves room for BorrowInserts rows
InitBorrow ==
  /\ versions = {}
  /\ builds = {}
  /\ blobs = {}
  /\ manifests = {}
  /\ clock = MaxClock - BorrowInserts
  /\ lastOp = NoOp
  /\ calls = [p \in Procs |-> NoCall]

BwCreateVersion ==
  /\ NoneRunning
  /\ \E v \in BorrowNames :
        /\ \A w \in BorrowNames :
              semverLt(w, v) => VersionRows(versions, w, "stable") # {}
        /\ CreateVersion(v, VersionOptions(NoName, NoNumber, NoTime, NoTime), {})

\* a listing of build:create, in the store or for direct download
BwCreateBuild ==
  /\ NoneRunning
  /\ \E v \in BorrowListed, distribution \in {NoName, "direct"} :
        CreateBuild(v, "macos", "arm64", "installer", <<"https:", "", "store", "app">>,
                    BuildOptions(NoName, distribution, NoName), {})

BwUploadBuild ==
  /\ NoneRunning
  /\ \E u \in BorrowUploads :
        UploadBuild(u[1], "spacerun-1.0.0-arm64-macos.dmg", "c1",
                    [BuildOptions(NoName, NoName, NoName) EXCEPT !.arch = u[2]], {})

BwPublishVersion ==
  /\ NoneRunning
  /\ \E v \in BorrowPublished, confirm \in BOOLEAN :
        \E chosen \in {{}} \cup {{b} : b \in Offerable(v, "stable")} :
           PublishVersion(v, [channel |-> NoName], chosen, confirm, {})

BwDeleteBuild ==
  /\ NoneRunning
  /\ \E v \in BorrowNames :
        DeleteBuild(v, "macos", "arm64", "installer", BuildOptions(NoName, NoName, NoName),
                    TRUE, {})

BwDeleteVersion ==
  /\ NoneRunning
  /\ \E v \in BorrowNames :
        DeleteVersion(v, [channel |-> NoName, force |-> FALSE], TRUE, {})

NextBorrow ==
  \/ BwCreateVersion
  \/ BwUploadBuild
  \/ BwCreateBuild
  \/ BwPublishVersion
  \/ BwDeleteBuild
  \/ BwDeleteVersion
  \/ ContinueUploadBuild
  \/ ContinueCreateBuild
  \/ ContinuePublishVersion
  \/ ContinueDeleteBuild
  \/ ContinueDeleteVersion

SpecBorrow == InitBorrow /\ [][NextBorrow]_vars

\* C29: every build that names a version in platform_metadata.fallback_from
\* has its source in the store: a version of that name exists and owns a
\* build for the same os, arch and type.
FallbackSourceStays ==
  \A b \in builds :
     b.platform_metadata.fallback_from # NoName =>
       \E v \in versions :
          /\ v.version_name = b.platform_metadata.fallback_from
          /\ \E source \in builds :
                /\ source.version_id = VersionId(v)
                /\ source.os = b.os /\ source.arch = b.arch /\ source.type = b.type

\* a deletion without --force of the source version was refused because a
\* build of another version is its fallback copy, in a chain: the build of
\* the refused version is itself the fallback copy of a third version's
WitnessFallbackSourceStays ==
  /\ lastOp.op = "deleteVersion"
  /\ lastOp.outcome = "conflict"
  /\ \E b, source \in builds :
        /\ b.platform_metadata.fallback_from = lastOp.version
        /\ b.version_id[1] # lastOp.version
        /\ source.version_id[1] = lastOp.version
        /\ source.platform_metadata.fallback_from \notin {NoName, lastOp.version}

\* build:create wrote a listing over a build of a version, and another
\* version holds a fallback copy of that version's build
WitnessListingOverFallbackCopy ==
  /\ lastOp.op = "createBuild"
  /\ lastOp.outcome = "created"
  /\ \E r \in builds :
        /\ BuildKey(r) = BuildKey(lastOp.result)
        /\ r.created_at < lastOp.result.created_at
        /\ r.platform_metadata.fallback_from = NoName
  /\ \E b \in builds : b.platform_metadata.fallback_from = lastOp.version

\* build:create inserted a listing into a version that holds a fallback
\* copy
WitnessListingBesideFallbackCopy ==
  /\ lastOp.op = "createBuild"
  /\ lastOp.outcome = "created"
  /\ lastOp.result.created_at = clock
  /\ \E b \in builds :
        /\ b.version_id = lastOp.result.version_id
        /\ b.platform_metadata.fallback_from # NoName

\* a deletion of the source's build was refused for the same reason
WitnessSourceBuildKept ==
  /\ lastOp.op = "deleteBuild"
  /\ lastOp.outcome = "conflict"
  /\ \E b \in builds : b.platform_metadata.fallback_from = lastOp.version

\* the draft version that borrowed a build was deleted with its fallback
\* copy, and the source version still owns its build
WitnessBorrowerDeleted ==
  /\ lastOp.op = "deleteVersion"
  /\ lastOp.outcome = "deleted"
  /\ \E d \in lastOp.deleted :
        /\ d.platform_metadata.fallback_from # NoName
        /\ \E source \in builds :
              source.version_id[1] = d.platform_metadata.fallback_from

\* ------------------------------------------------ raising the rollout
\* the percentages a device included at one percentage is tested at
RolloutRange == -5..150

\* C30: a device that isDeviceInRolloutBucket includes at a percentage is
\* included at every higher percentage.
RolloutInclusionMonotonic ==
  (lastOp.op = "isDeviceInRolloutBucket" /\ lastOp.result = TRUE) =>
    \A q \in RolloutRange :
       q >= lastOp.input => isDeviceInRolloutBucket(lastOp.deviceId, q)

\* a device included at a percentage below 100 that is left out at a
\* lower percentage above 0
WitnessRolloutInclusionMonotonic ==
  /\ lastOp.op = "isDeviceInRolloutBucket"
  /\ lastOp.result = TRUE
  /\ lastOp.input < 100
  /\ \E q \in RolloutRange :
        /\ q > 0 /\ q < lastOp.input
        /\ ~isDeviceInRolloutBucket(lastOp.deviceId, q)

====
